---------------------------- MODULE Spec2Model ----------------------------
(***************************************************************************)
(* A model of the client-side API access layer of the Steam sale app       *)
(* (src/app/(tabs)/index.tsx): the bounded concurrency executor            *)
(* parallelFetchWithLimit, the rate limiter rateLimitedFetch, the response *)
(* cache getCachedOrFetch and the Home tab's handlers (load more, genre    *)
(* backfill, filter selection, refresh).                                   *)
(*                                                                         *)
(* JavaScript runs one job at a time; an async function runs without       *)
(* interruption up to its next await.  Every action below is one such      *)
(* uninterrupted piece of a handler, and the interleavings of the actions  *)
(* are the orders in which the event loop may run the pieces.              *)
(*                                                                         *)
(* The module holds several specifications over one set of variables.      *)
(* Each specification gives the variables of the components it does not    *)
(* exercise a fixed value and leaves them unchanged.                       *)
(***************************************************************************)
EXTENDS Naturals, Integers, Sequences, FiniteSets, TLC

VARIABLES
    \* ---- parallelFetchWithLimit (one call of it) ----
    items,        \* the items argument, a sequence
    opState,      \* per item: "idle" | "running" | "fulfilled" | "rejected"
                  \*           | "removedOk" | "removedRej"
    results,      \* the results array (sparse: holes where nothing was assigned)
    executing,    \* the executing array, as the sequence of item indexes
    loopIdx,      \* the for loop's i, 1-based: the next item to start
    execPc,       \* "off" | "loop" | "race" | "all" | "done" | "rejected"
    awaited,      \* the promises Promise.race / Promise.all was handed
    thrown,       \* ghost: the items whose fetchFn threw
    \* ---- rateLimitedFetch ----
    now,          \* Date.now()
    lastApiCallTime,
    rlPc,         \* per caller: "idle" | "sleeping"
    rlWake,       \* per caller: the time its setTimeout is due
    fetchTimes,   \* ghost: the instants at which fetch(url) was issued
    \* ---- getCachedOrFetch ----
    API_CACHE,    \* key -> entry, an entry being [data, timestamp] or NoEntry
    gcPc,         \* "idle" | "fetching"
    gcKey,        \* the cacheKey of the call in progress
    gcNow,        \* the const now of the call in progress
    callLog,      \* ghost: the completed calls, in order
    \* ---- HomeTab: React state ----
    deals, filteredDeals, page, hasMore, loadingMore, loading, refreshing,
    allSteamGames, selectedFilter, selectedGenre,
    isFetchingGenres,   \* the ref isFetchingGenres.current
    \* ---- HomeTab: handlers in progress, each with what its closure captured ----
    fgInFlight,   \* the fetchGameDeals calls in progress: how many await the
                  \* aggregator (pool) and how many the price enrichment (prices)
    lm,           \* the loadMoreGames calls awaiting fetchSteamSaleGames
    bf,           \* the filterDealsByGenre calls inside their fetch loop
    nEvents,      \* ghost: the user events handled so far
    earlyReturn,  \* ghost: the handler that returned at one of its guards on
                  \* the last user event, "none" when it went on
    \* ---- fetchSteamPrice / fetchGameDetail (one call of either) ----
    rtFn,         \* which of the two functions was called
    rtRetries,    \* the retries argument of the invocation in progress
    rtPc,         \* "request" | "throttled" | "backoff" | "returned"
    rtDue,        \* the time the pending setTimeout is due
    rtLog,        \* ghost: the requests issued, each with its response
    rtResult,     \* what the call returned or showed, "none" while it runs
    \* ---- fetchSteamSaleGames: the enrichment of one slice ----
    pgGames,      \* pageGames, the slice
    pgAnswers,    \* ghost: what fetchSteamPrice gave for each game so far
    pgEnriched,   \* enrichedGames
    pgOnSale,     \* gamesOnSale, the page returned
    pgPc,         \* "enrich" | "returned"
    \* ---- fetchAllSteamSaleGames (one call of it) ----
    allDeals,     \* the aggregator's rows, flattened in page order
    uniqueGames,  \* the pool returned
    poolPc,       \* "idle" | "fetching" | "returned" | "failed"
    \* ---- the classifiers of the home and the search screen ----
    clTitle,      \* the title classified
    clHome,       \* what the home screen's classifier returned, or NotClassified
    clSearch,     \* what classifyContent returned, or NotClassified
    \* ---- applyFilterToDeals as a function of its three arguments ----
    apItems,      \* dealsToFilter of the first call
    apPrice,      \* priceFilter
    apGenre,      \* genreFilter
    apOnce,       \* what the first call published
    apTwice,      \* what the call on that output published
    apPc,         \* "idle" | "input" | "once" | "twice"
    \* ---- the search screen's detail view: handleGamePress ----
    dtAppID,      \* game.steamAppID of the game pressed, 0 when it has none
    dtStore,      \* what the storefront answers: to each of the two requests
                  \* for the game, and how many DLC identifiers it lists
    dtPc,         \* handleGamePress: "idle" | "inFlight" | "done"
    dtDetailPc,   \* fetchGameDetail: "idle" | "inFlight" | "settled"
    dtDlcPc,      \* fetchGameDLCs: "idle" | "parent" | "children" | "settled"
    dtDetail,     \* what fetchGameDetail returned
    dtDlcs,       \* what fetchGameDLCs returned
    gameDetail,   \* React state
    gameDLCs,     \* React state
    dtLoadingDetail,  \* React state loadingDetail of the search screen
    dtRequests,   \* ghost: the identifiers requested from the storefront, in order
    dtPresses,    \* ghost: presses so far
    \* ---- one call of a fetch operation whose request fails ----
    flFn,         \* the operation called
    flFailure,    \* how the request fails: its response and the kind of its body
    flRows,       \* the rows of the aggregator pages that did answer
    flPc,         \* "idle" | "calling" | "returned" | "threw"
    flResult,     \* what the call returned
    flBatches,    \* ghost: batches of page requests sent to the aggregator
    \* ---- the focus effect of the Home tab ----
    tabIndex,     \* navigation state: the tab that is the focused route
    isFocused,    \* the ref isFocused.current
    sinceLastFocus,  \* Date.now() - lastFocusTime.current, in ticks, up to MaxFocusTicks
    fcLastPress,  \* ghost: the last press on the tab bar
    fcRefreshed,  \* ghost: the focus effect has started a refresh
    \* ---- the detail view of the Home tab (handleGamePress, fetchGameDetail) ----
    ldAppID,      \* the steamAppID of the pressed listing, 0 before a press
    ldPc,         \* "idle" | "request" | "throttled" | "waiting" | "done"
    ldRetries,    \* the retries argument of the innermost call
    loadingDetail,   \* state loadingDetail
    showGameDetail,  \* state showGameDetail
    selectedGame, \* state selectedGame: "null" or "detail"
    ldLog,        \* ghost: the outcome of each attempt, in order
    \* ---- the search screen (searchGames, debouncedSearch) ----
    searchQuery,  \* state searchQuery, a sequence of characters
    debounceRef,  \* the pending debounce timer: <<>> or <<query>>
    searchResults,   \* state searchResults
    srLoading,    \* state loading of the search screen
    recentSearches,  \* state recentSearches
    srCalls       \* the calls of searchGames that sent a request, in order

execVars  == <<items, opState, results, executing, loopIdx, execPc, awaited, thrown>>
rateVars  == <<lastApiCallTime, rlPc, rlWake, fetchTimes>>
cacheVars == <<API_CACHE, gcPc, gcKey, gcNow, callLog>>
homeVars  == <<deals, filteredDeals, page, hasMore, loadingMore, loading, refreshing,
               allSteamGames, selectedFilter, selectedGenre, isFetchingGenres,
               fgInFlight, lm, bf, nEvents, earlyReturn>>
retryVars == <<rtFn, rtRetries, rtPc, rtDue, rtLog, rtResult>>
\* the variables of the specifications added for single functions
pageVars  == <<pgGames, pgAnswers, pgEnriched, pgOnSale, pgPc>>
poolVars  == <<allDeals, uniqueGames, poolPc>>
classVars == <<clTitle, clHome, clSearch>>
applyVars == <<apItems, apPrice, apGenre, apOnce, apTwice, apPc>>
detailVars == <<dtAppID, dtStore, dtPc, dtDetailPc, dtDlcPc, dtDetail, dtDlcs, gameDetail,
                gameDLCs, dtLoadingDetail, dtRequests, dtPresses>>
failVars  == <<flFn, flFailure, flRows, flPc, flResult, flBatches>>
focusVars == <<tabIndex, isFocused, sinceLastFocus, fcLastPress, fcRefreshed>>
loadVars  == <<ldAppID, ldPc, ldRetries, loadingDetail, showGameDetail, selectedGame, ldLog>>
searchVars == <<searchQuery, debounceRef, searchResults, srLoading, recentSearches, srCalls>>
lateVars  == <<applyVars, detailVars, failVars, focusVars, loadVars, searchVars>>
pureVars  == <<retryVars, pageVars, poolVars, classVars, lateVars>>
vars == <<execVars, now, rateVars, cacheVars, homeVars, pureVars>>

-----------------------------------------------------------------------------
(***************************************************************************)
(* Bounds of the model.                                                    *)
(***************************************************************************)
MaxItems == 5        \* items handed to one call of parallelFetchWithLimit
MaxRateTicks == 8    \* clock ticks of the rate limiter's specification
MaxFetches == 4      \* requests issued through rateLimitedFetch
MaxCacheTicks == 3   \* clock ticks of the cache's specification
MaxCalls == 3        \* calls of getCachedOrFetch
MaxEvents == 3       \* user events (scroll to end, pull to refresh, filter taps)
MaxInFlight == 2     \* calls of one handler awaiting at the same time

-----------------------------------------------------------------------------
(***************************************************************************)
(* Program constants.                                                      *)
(***************************************************************************)
MAX_PARALLEL_REQUESTS == 3
MIN_DELAY_BETWEEN_CALLS == 150
batchSize == 5
CACHE_DURATION == 10 * 60 * 1000

-----------------------------------------------------------------------------
(***************************************************************************)
(* JavaScript values, as far as the code tells them apart.                 *)
(***************************************************************************)
JsNull  == [tag |-> "null", of |-> 0]
JsHole  == [tag |-> "hole", of |-> 0]      \* an index of an array never assigned
JsValue(x) == [tag |-> "value", of |-> x]
JsUndefined == [tag |-> "undefined", of |-> 0]
JsString(len) == [tag |-> "string", of |-> len]   \* a string of len characters
JsArray(len)  == [tag |-> "array", of |-> len]    \* an array of len elements
JsObject(id)  == [tag |-> "object", of |-> id]    \* a parsed JSON object

\* ToBoolean, as `if (data)` applies it: arrays and objects are truthy, the
\* empty array included
Truthy(v) ==
    /\ v.tag \notin {"null", "undefined", "hole"}
    /\ ~(v.tag = "string" /\ v.of = 0)

RECURSIVE Holes(_)
Holes(n) == IF n <= 0 THEN <<>> ELSE <<JsHole>> \o Holes(n - 1)

SeqToSet(s) == { s[k] : k \in DOMAIN s }

\* Array.prototype.indexOf: the first position of x in s, 0 when absent
\* (JavaScript's -1).
IndexOf(s, x) ==
    IF \E k \in DOMAIN s : s[k] = x
    THEN CHOOSE k \in DOMAIN s : s[k] = x /\ \A j \in 1..(k - 1) : s[j] # x
    ELSE 0

\* Array.prototype.splice(start, 1) with start the 1-based position k; k = 0
\* stands for JavaScript's start = -1, which removes the last element.
Splice1(s, k) ==
    IF Len(s) = 0 THEN s
    ELSE LET p == IF k = 0 THEN Len(s) ELSE k
         IN  SubSeq(s, 1, p - 1) \o SubSeq(s, p + 1, Len(s))


-----------------------------------------------------------------------------
(***************************************************************************)
(* parallelFetchWithLimit (index.tsx 119-156).                             *)
(*                                                                         *)
(* Each item's wrapper promise is named by the item's index.  The wrapper  *)
(* settles when fetchFn settles; its reactions run in the order they were  *)
(* registered: first the finally callback that splices it out of           *)
(* executing (line 143), then the reaction of a Promise.race it is part of *)
(* (line 149).  So a race resumes the loop only through a promise that has *)
(* already been spliced out.                                               *)
(***************************************************************************)
maxConcurrent == MAX_PARALLEL_REQUESTS

\* the input handed to the executor: n items, each told from its index
ItemsOf(n) == [k \in 1..n |-> 100 + k]

\* what the per-item operation returns for an item when it does not throw
FetchFnValue(item) == JsValue(item)

AtLimitOffByOne(len, cap) == len > cap
\* line 148: if (executing.length >= maxConcurrent)
AtLimit(len, cap) == len >= cap

StoreResultPush(res, i, v) == Append(res, v)
\* lines 133, 136: results[i] = v on an array that starts empty
StoreResult(res, i, v) ==
    IF i <= Len(res) THEN [res EXCEPT ![i] = v]
    ELSE res \o Holes(i - Len(res) - 1) \o <<v>>

WrapperRethrows(outcome) == IF outcome = "throw" THEN "rejected" ELSE "fulfilled"
\* lines 130-138: the try/catch makes the wrapper fulfil on either outcome
WrapperSettles(outcome) == "fulfilled"

\* lines 132-136: what the wrapper writes for item i
WrapperResult(i, outcome, value) == IF outcome = "throw" THEN JsNull ELSE value

Settled(i)  == opState[i] \in {"fulfilled", "rejected", "removedOk", "removedRej"}
Removed(i)  == opState[i] \in {"removedOk", "removedRej"}
Rejected(i) == opState[i] \in {"rejected", "removedRej"}

\* the call itself: lines 124-125 and the loop's i = 0
ExecInvoke(its) ==
    /\ items' = its
    /\ opState' = [k \in 1..Len(its) |-> "idle"]
    /\ results' = <<>>
    /\ executing' = <<>>
    /\ loopIdx' = 1
    /\ execPc' = "loop"
    /\ awaited' = {}
    /\ thrown' = {}

\* one iteration of the for loop, lines 127-150: start the item, push its
\* promise, and await the race when the limit is reached
ExecLoopStart ==
    /\ execPc = "loop"
    /\ loopIdx <= Len(items)
    /\ opState' = [opState EXCEPT ![loopIdx] = "running"]
    /\ executing' = Append(executing, loopIdx)
    /\ loopIdx' = loopIdx + 1
    /\ IF AtLimit(Len(executing) + 1, maxConcurrent)
       THEN execPc' = "race" /\ awaited' = SeqToSet(executing) \cup {loopIdx}
       ELSE execPc' = "loop" /\ awaited' = {}
    /\ UNCHANGED <<items, results, thrown>>

\* the loop ends, line 154: await Promise.all(executing)
ExecLoopExit ==
    /\ execPc = "loop"
    /\ loopIdx > Len(items)
    /\ execPc' = "all"
    /\ awaited' = SeqToSet(executing)
    /\ UNCHANGED <<items, opState, results, executing, loopIdx, thrown>>

\* fetchFn(item) settles and the wrapper's continuation runs, lines 132-137
ExecSettle(i, outcome, value) ==
    /\ i \in DOMAIN opState
    /\ opState[i] = "running"
    /\ results' = StoreResult(results, i, WrapperResult(i, outcome, value))
    /\ opState' = [opState EXCEPT ![i] = WrapperSettles(outcome)]
    /\ thrown' = IF outcome = "throw" THEN thrown \cup {i} ELSE thrown
    /\ UNCHANGED <<items, executing, loopIdx, execPc, awaited>>

\* the finally callback, lines 143-145
ExecFinally(i) ==
    /\ i \in DOMAIN opState
    /\ opState[i] \in {"fulfilled", "rejected"}
    /\ executing' = Splice1(executing, IndexOf(executing, i))
    /\ opState' = [opState EXCEPT
                     ![i] = IF opState[i] = "fulfilled" THEN "removedOk" ELSE "removedRej"]
    /\ UNCHANGED <<items, results, loopIdx, execPc, awaited, thrown>>

\* Promise.race settles as the first of its promises to deliver its
\* reaction did, and the loop goes on (or the call rejects), line 149
ExecRaceResume ==
    /\ execPc = "race"
    /\ \E j \in awaited :
         /\ Removed(j)
         /\ execPc' = IF Rejected(j) THEN "rejected" ELSE "loop"
    /\ awaited' = {}
    /\ UNCHANGED <<items, opState, results, executing, loopIdx, thrown>>

\* Promise.all settles, lines 154-155: return results.  Its reaction on a
\* promise, like the race's, runs after that promise's finally callback.
ExecAllResolve ==
    /\ execPc = "all"
    /\ LET rej == \E j \in awaited : opState[j] = "removedRej"
       IN  /\ rej \/ \A j \in awaited : Removed(j)
           /\ execPc' = IF rej THEN "rejected" ELSE "done"
    /\ awaited' = {}
    /\ UNCHANGED <<items, opState, results, executing, loopIdx, thrown>>

\* the operations started and not yet settled
InFlight == { i \in DOMAIN opState : opState[i] = "running" }

-----------------------------------------------------------------------------
(***************************************************************************)
(* Values the components hold while a specification does not exercise them.*)
(***************************************************************************)
Callers == 1..MAX_PARALLEL_REQUESTS
\* the cache keys in use: one per request kind and app id
Keys == {"steam_price_1", "game_genres_1"}
\* Map.get of a key never set
NoEntry == [data |-> JsUndefined, timestamp |-> 0, present |-> FALSE]

ExecOff ==
    /\ items = <<>> /\ opState = <<>> /\ results = <<>> /\ executing = <<>>
    /\ loopIdx = 1 /\ execPc = "off" /\ awaited = {} /\ thrown = {}

RateOff ==
    /\ lastApiCallTime = 0
    /\ rlPc = [c \in Callers |-> "idle"]
    /\ rlWake = [c \in Callers |-> 0]
    /\ fetchTimes = <<>>

HomeOff ==
    /\ deals = <<>> /\ filteredDeals = <<>> /\ page = 0
    /\ hasMore = TRUE /\ loadingMore = FALSE /\ loading = TRUE /\ refreshing = FALSE
    /\ allSteamGames = <<>> /\ selectedFilter = "all" /\ selectedGenre = "all"
    /\ isFetchingGenres = FALSE
    /\ fgInFlight = [pool |-> 0, prices |-> 0] /\ lm = <<>> /\ bf = <<>>
    /\ nEvents = 0 /\ earlyReturn = "none"

RetryOff ==
    /\ rtFn = "none" /\ rtRetries = 0 /\ rtPc = "returned" /\ rtDue = 0
    /\ rtLog = <<>> /\ rtResult = "none"

PageOff ==
    /\ pgGames = <<>> /\ pgAnswers = <<>> /\ pgEnriched = <<>>
    /\ pgOnSale = <<>> /\ pgPc = "returned"

PoolOff == allDeals = <<>> /\ uniqueGames = <<>> /\ poolPc = "idle"

NotClassified == [contentType |-> "none", isDLC |-> FALSE, isBundle |-> FALSE]
ClassOff == clTitle = <<>> /\ clHome = NotClassified /\ clSearch = NotClassified

ApplyOff ==
    /\ apItems = <<>> /\ apPrice = "all" /\ apGenre = "all"
    /\ apOnce = <<>> /\ apTwice = <<>> /\ apPc = "idle"

DetailOff ==
    /\ dtAppID = 0 /\ dtStore = [detail |-> "ok", parent |-> "ok", dlcCount |-> 0]
    /\ dtPc = "idle" /\ dtDetailPc = "idle" /\ dtDlcPc = "idle"
    /\ dtDetail = "null" /\ dtDlcs = <<>> /\ gameDetail = "null" /\ gameDLCs = <<>>
    /\ dtLoadingDetail = FALSE /\ dtRequests = <<>> /\ dtPresses = 0

FailOff ==
    /\ flFn = "none" /\ flFailure = [response |-> "ok", body |-> "json"] /\ flRows = <<>>
    /\ flPc = "idle" /\ flResult = "none" /\ flBatches = 0

FocusOff ==
    /\ tabIndex = "none" /\ isFocused = FALSE /\ sinceLastFocus = 0
    /\ fcLastPress = "none" /\ fcRefreshed = FALSE

LoadOff ==
    /\ ldAppID = 0 /\ ldPc = "idle" /\ ldRetries = 0 /\ loadingDetail = FALSE
    /\ showGameDetail = FALSE /\ selectedGame = "null" /\ ldLog = <<>>

SearchOff ==
    /\ searchQuery = <<>> /\ debounceRef = <<>> /\ searchResults = <<>>
    /\ srLoading = FALSE /\ recentSearches = <<>> /\ srCalls = <<>>

LateOff == ApplyOff /\ DetailOff /\ FailOff /\ FocusOff /\ LoadOff /\ SearchOff

PureOff == RetryOff /\ PageOff /\ PoolOff /\ ClassOff /\ LateOff

CacheOff ==
    /\ API_CACHE = [k \in Keys |-> NoEntry]
    /\ gcPc = "idle" /\ gcKey = "" /\ gcNow = 0
    /\ callLog = <<>>

-----------------------------------------------------------------------------
(***************************************************************************)
(* SpecExec: one call of parallelFetchWithLimit on 0..MaxItems items, the  *)
(* per-item operations settling in any order, each by returning or by      *)
(* throwing.                                                               *)
(***************************************************************************)
InitExec ==
    /\ \E n \in 0..MaxItems :
         /\ items = ItemsOf(n)
         /\ opState = [k \in 1..n |-> "idle"]
    /\ results = <<>> /\ executing = <<>> /\ loopIdx = 1
    /\ execPc = "loop" /\ awaited = {} /\ thrown = {}
    /\ now = 0 /\ RateOff /\ CacheOff /\ HomeOff /\ PureOff

nonExecVars == <<now, rateVars, cacheVars, homeVars, pureVars>>

LoopStart   == ExecLoopStart /\ UNCHANGED nonExecVars
LoopExit    == ExecLoopExit /\ UNCHANGED nonExecVars
OpSettles ==
    /\ \E i \in DOMAIN opState, outcome \in {"return", "throw"} :
         ExecSettle(i, outcome, FetchFnValue(items[i]))
    /\ UNCHANGED nonExecVars
FinallyRuns ==
    /\ \E i \in DOMAIN opState : ExecFinally(i)
    /\ UNCHANGED nonExecVars
RaceResume  == ExecRaceResume /\ UNCHANGED nonExecVars
AllResolve  == ExecAllResolve /\ UNCHANGED nonExecVars

NextExec ==
    \/ LoopStart
    \/ LoopExit
    \/ OpSettles
    \/ FinallyRuns
    \/ RaceResume
    \/ AllResolve

SpecExec == InitExec /\ [][NextExec]_vars

\* The event loop runs every job that is ready, and (the premise of the
\* liveness claim) every per-item operation eventually settles.
FairSpecExec ==
    /\ SpecExec
    /\ WF_vars(LoopStart)
    /\ WF_vars(LoopExit)
    /\ WF_vars(OpSettles)
    /\ WF_vars(FinallyRuns)
    /\ WF_vars(RaceResume)
    /\ WF_vars(AllResolve)

\* C1: at every instant at most maxConcurrent (3) per-item operations are
\* started and not yet settled, for any number of items and any order in
\* which the operations settle.
C1_AtMostMaxConcurrentInFlight ==
    Cardinality(InFlight) <= MAX_PARALLEL_REQUESTS

\* the cap binds: three operations run, one has settled, one waits its turn
C1_Witness_CapBinds ==
    /\ Cardinality(InFlight) = MAX_PARALLEL_REQUESTS
    /\ \E i \in DOMAIN opState : Settled(i)
    /\ \E i \in DOMAIN opState : opState[i] = "idle"

\* C3: the array returned has the length of the input and its i-th element
\* is what the operation returned for the i-th input, or null if it threw,
\* whatever the order of completion.
C3_ResultsAlignedWithInput ==
    execPc = "done" =>
        /\ Len(results) = Len(items)
        /\ \A i \in DOMAIN items :
             results[i] = IF i \in thrown THEN JsNull ELSE JsValue(items[i])

\* a call of more items than the cap has returned, some having thrown
C3_Witness_ReturnedWithFailures ==
    /\ execPc = "done"
    /\ Len(items) > MAX_PARALLEL_REQUESTS
    /\ thrown # {}
    /\ thrown # DOMAIN items

\* C4: if every per-item operation eventually settles, every item is
\* eventually started and the call resolves (it never rejects), also when
\* operations throw.
C4_EveryItemStartedAndCallResolves ==
    /\ <>(execPc = "done" /\ \A i \in DOMAIN opState : opState[i] # "idle")
    /\ [](execPc # "rejected")

\* the call has resolved although its first item threw
C4_Witness_ResolvedDespiteThrow ==
    /\ execPc = "done"
    /\ Len(items) > MAX_PARALLEL_REQUESTS
    /\ 1 \in thrown
    /\ \A i \in DOMAIN opState : Settled(i)

-----------------------------------------------------------------------------
(***************************************************************************)
(* rateLimitedFetch (index.tsx 105-116).                                   *)
(*                                                                         *)
(* A call runs without interruption to its await (lines 106-111) or, when  *)
(* it need not wait, to the fetch (lines 106-115).  A caller that waits    *)
(* resumes when its timer is due, or later, and runs lines 114-115.        *)
(***************************************************************************)
\* the clock's step, and an instant for the program to start at: Date.now()
\* is far more than MIN_DELAY_BETWEEN_CALLS after the 0 of lastApiCallTime
RateTick == MIN_DELAY_BETWEEN_CALLS \div 3
ClockStart == 2 * MIN_DELAY_BETWEEN_CALLS

\* line 110: if (timeSinceLastCall < MIN_DELAY_BETWEEN_CALLS)
MustWait(timeSinceLastCall) == timeSinceLastCall < MIN_DELAY_BETWEEN_CALLS

\* lines 114-115: lastApiCallTime = Date.now(); return fetch(url, options)
RlIssue ==
    /\ lastApiCallTime' = now
    /\ fetchTimes' = Append(fetchTimes, now)

\* lines 106-115 up to the await or to the fetch
RlCall(c) ==
    /\ rlPc[c] = "idle"
    /\ Len(fetchTimes) + Cardinality({d \in Callers : rlPc[d] = "sleeping"}) < MaxFetches
    /\ LET timeSinceLastCall == now - lastApiCallTime
       IN  IF MustWait(timeSinceLastCall)
           THEN /\ rlPc' = [rlPc EXCEPT ![c] = "sleeping"]
                /\ rlWake' = [rlWake EXCEPT
                                ![c] = now + (MIN_DELAY_BETWEEN_CALLS - timeSinceLastCall)]
                /\ UNCHANGED <<lastApiCallTime, fetchTimes>>
           ELSE /\ RlIssue
                /\ UNCHANGED <<rlPc, rlWake>>

\* the setTimeout of line 111 fires and the call goes on, lines 114-115
RlWakeUp(c) ==
    /\ rlPc[c] = "sleeping"
    /\ now >= rlWake[c]
    /\ RlIssue
    /\ rlPc' = [rlPc EXCEPT ![c] = "idle"]
    /\ UNCHANGED rlWake

-----------------------------------------------------------------------------
(***************************************************************************)
(* SpecRate: up to three callers (the operations parallelFetchWithLimit    *)
(* keeps in flight) call rateLimitedFetch at any time, again and again.    *)
(***************************************************************************)
InitRate ==
    /\ now = ClockStart
    /\ RateOff /\ ExecOff /\ CacheOff /\ HomeOff /\ PureOff

RateCall ==
    /\ \E c \in Callers : RlCall(c)
    /\ UNCHANGED <<now, execVars, cacheVars, homeVars, pureVars>>

RateWakeUp ==
    /\ \E c \in Callers : RlWakeUp(c)
    /\ UNCHANGED <<now, execVars, cacheVars, homeVars, pureVars>>

RateClock ==
    /\ now < ClockStart + MaxRateTicks * RateTick
    /\ now' = now + RateTick
    /\ UNCHANGED <<rateVars, execVars, cacheVars, homeVars, pureVars>>

NextRate == RateCall \/ RateWakeUp \/ RateClock

SpecRate == InitRate /\ [][NextRate]_vars

\* C2: any two requests issued through rateLimitedFetch are issued at least
\* MIN_DELAY_BETWEEN_CALLS (150 ms) apart, under any interleaving of
\* concurrent callers.
C2_FetchesSpacedByMinDelay ==
    \A i, j \in DOMAIN fetchTimes :
        i < j => fetchTimes[j] - fetchTimes[i] >= MIN_DELAY_BETWEEN_CALLS

-----------------------------------------------------------------------------
(***************************************************************************)
(* getCachedOrFetch (index.tsx 159-178).                                   *)
(*                                                                         *)
(* A call runs lines 160-167 and returns the cached data, or goes on to    *)
(* line 170 and awaits the producer; when the producer returns, lines      *)
(* 173-177 run; when it throws, the call throws and stores nothing.        *)
(***************************************************************************)
CacheTick == CACHE_DURATION \div 2

\* what a producer may return: null (a failed price fetch), undefined (no
\* data field), the empty list of genres a failed genre fetch returns
\* (lines 915, 918), a list of genres, a price block
ProducerResults == {JsNull, JsUndefined, JsArray(0), JsArray(2), JsObject(1)}

CacheValidInclusive(entry, t) ==
    entry.present /\ (t - entry.timestamp) <= CACHE_DURATION
\* line 164: if (cached && (now - cached.timestamp) < CACHE_DURATION)
CacheValid(entry, t) ==
    entry.present /\ (t - entry.timestamp) < CACHE_DURATION

\* lines 173-175: if (data) API_CACHE.set(cacheKey, { data, timestamp: now })
CacheStore(cache, key, data, t) ==
    IF Truthy(data)
    THEN [cache EXCEPT ![key] = [data |-> data, timestamp |-> t, present |-> TRUE]]
    ELSE cache

LogCall(key, start, invoked, threw, ret) ==
    callLog' = Append(callLog, [key |-> key, start |-> start, invoked |-> invoked,
                                threw |-> threw, ret |-> ret])

\* lines 160-170
GcCall(key) ==
    /\ gcPc = "idle"
    /\ Len(callLog) < MaxCalls
    /\ IF CacheValid(API_CACHE[key], now)
       THEN /\ LogCall(key, now, FALSE, FALSE, API_CACHE[key].data)
            /\ UNCHANGED <<API_CACHE, gcPc, gcKey, gcNow>>
       ELSE /\ gcPc' = "fetching"
            /\ gcKey' = key
            /\ gcNow' = now
            /\ UNCHANGED <<API_CACHE, callLog>>

\* the producer returns data: lines 170-177
GcProducerReturns(data) ==
    /\ gcPc = "fetching"
    /\ API_CACHE' = CacheStore(API_CACHE, gcKey, data, gcNow)
    /\ LogCall(gcKey, gcNow, TRUE, FALSE, data)
    /\ gcPc' = "idle"
    /\ UNCHANGED <<gcKey, gcNow>>

\* the producer throws: the await of line 170 throws out of the call
GcProducerThrows ==
    /\ gcPc = "fetching"
    /\ LogCall(gcKey, gcNow, TRUE, TRUE, JsUndefined)
    /\ gcPc' = "idle"
    /\ UNCHANGED <<API_CACHE, gcKey, gcNow>>

-----------------------------------------------------------------------------
(***************************************************************************)
(* SpecCache: sequential calls of getCachedOrFetch, each beginning after   *)
(* the one before it has settled, with time passing between and within     *)
(* calls.                                                                  *)
(***************************************************************************)
InitCache ==
    /\ now = ClockStart
    /\ CacheOff /\ ExecOff /\ RateOff /\ HomeOff /\ PureOff

CacheCall ==
    /\ \E key \in Keys : GcCall(key)
    /\ UNCHANGED <<now, execVars, rateVars, homeVars, pureVars>>

CacheProducerReturns ==
    /\ \E data \in ProducerResults : GcProducerReturns(data)
    /\ UNCHANGED <<now, execVars, rateVars, homeVars, pureVars>>

CacheProducerThrows ==
    /\ GcProducerThrows
    /\ UNCHANGED <<now, execVars, rateVars, homeVars, pureVars>>

CacheClock ==
    /\ now < ClockStart + MaxCacheTicks * CacheTick
    /\ now' = now + CacheTick
    /\ UNCHANGED <<cacheVars, execVars, rateVars, homeVars, pureVars>>

NextCache == CacheCall \/ CacheProducerReturns \/ CacheProducerThrows \/ CacheClock

SpecCache == InitCache /\ [][NextCache]_vars

\* the last call before call j, of the same key, that invoked the producer
\* and stored its result; 0 if there is none
StoringCallBefore(j) ==
    LET S == { i \in 1..(j - 1) :
                 /\ callLog[i].key = callLog[j].key
                 /\ callLog[i].invoked /\ ~callLog[i].threw
                 /\ Truthy(callLog[i].ret) }
    IN  IF S = {} THEN 0 ELSE CHOOSE i \in S : \A k \in S : k <= i

\* C5 as claimed: two sequential calls with the same key made within
\* CACHE_DURATION of each other invoke the producer at most once in total
\* and return the same payload; a call made CACHE_DURATION or more after
\* the entry was stored invokes the producer again.
C5_Original_TwoCallsWithinTtlInvokeOnce ==
    \A i, j \in DOMAIN callLog :
        (i < j /\ callLog[i].key = callLog[j].key) =>
            /\ (callLog[j].start - callLog[i].start < CACHE_DURATION) =>
                   /\ ~(callLog[i].invoked /\ callLog[j].invoked)
                   /\ callLog[i].ret = callLog[j].ret
            /\ (i = StoringCallBefore(j)
                  /\ callLog[j].start - callLog[i].start >= CACHE_DURATION) =>
                   callLog[j].invoked

\* C5 as amended: when the first call invokes the producer and the producer
\* returns a truthy payload, a later call with the same key begun less than
\* CACHE_DURATION after the first began does not invoke the producer and
\* returns the same payload; when the producer returned a falsy payload or
\* threw, nothing is stored and the next call with the key invokes the
\* producer again; a call begun CACHE_DURATION or more after the call that
\* stored the entry began invokes the producer again.
C5_TruthyResultServedFromCacheWithinTtl ==
    \A i, j \in DOMAIN callLog :
        (i < j /\ callLog[i].key = callLog[j].key) =>
            /\ ( /\ callLog[i].invoked /\ ~callLog[i].threw /\ Truthy(callLog[i].ret)
                 /\ callLog[j].start - callLog[i].start < CACHE_DURATION ) =>
                   /\ ~callLog[j].invoked
                   /\ callLog[j].ret = callLog[i].ret
            /\ ( /\ callLog[i].invoked
                 /\ callLog[i].threw \/ ~Truthy(callLog[i].ret)
                 /\ \A k \in (i + 1)..(j - 1) : callLog[k].key # callLog[i].key ) =>
                   callLog[j].invoked
            /\ ( /\ i = StoringCallBefore(j)
                 /\ callLog[j].start - callLog[i].start >= CACHE_DURATION ) =>
                   callLog[j].invoked

\* three calls with one key: the first stores a payload, the second, begun
\* within CACHE_DURATION, is served from the cache, the third, begun
\* exactly CACHE_DURATION after the first, invokes the producer again
C5_Witness_HitThenExpiry ==
    /\ Len(callLog) = 3
    /\ \A i \in 1..3 : callLog[i].key = callLog[1].key
    /\ callLog[1].invoked /\ Truthy(callLog[1].ret)
    /\ ~callLog[2].invoked /\ callLog[2].ret = callLog[1].ret
    /\ callLog[2].start > callLog[1].start
    /\ callLog[3].start - callLog[1].start = CACHE_DURATION
    /\ callLog[3].invoked

\* what C6 calls a null, undefined or empty payload
EmptyPayload(v) ==
    \/ v.tag \in {"null", "undefined", "hole"}
    \/ v.tag \in {"array", "string"} /\ v.of = 0

\* C6: after any sequence of calls no entry of API_CACHE holds a null,
\* undefined or empty payload.
C6_NoEmptyPayloadCached ==
    \A k \in Keys : API_CACHE[k].present => ~EmptyPayload(API_CACHE[k].data)

-----------------------------------------------------------------------------
(***************************************************************************)
(* HomeTab: listings, and the answers of the two services.                 *)
(*                                                                         *)
(* A string the code searches in is a sequence of characters.  The         *)
(* Vietnamese keywords of genreMap are written without their diacritics.   *)
(***************************************************************************)
UpperToLower ==
    [c \in {"A", "B", "C", "D", "E", "F", "G", "H", "I", "J", "K", "L", "M", "N",
            "O", "P", "Q", "R", "S", "T", "U", "V", "W", "X", "Y", "Z"} |->
       CASE c = "A" -> "a" [] c = "B" -> "b" [] c = "C" -> "c" [] c = "D" -> "d"
         [] c = "E" -> "e" [] c = "F" -> "f" [] c = "G" -> "g" [] c = "H" -> "h"
         [] c = "I" -> "i" [] c = "J" -> "j" [] c = "K" -> "k" [] c = "L" -> "l"
         [] c = "M" -> "m" [] c = "N" -> "n" [] c = "O" -> "o" [] c = "P" -> "p"
         [] c = "Q" -> "q" [] c = "R" -> "r" [] c = "S" -> "s" [] c = "T" -> "t"
         [] c = "U" -> "u" [] c = "V" -> "v" [] c = "W" -> "w" [] c = "X" -> "x"
         [] c = "Y" -> "y" [] c = "Z" -> "z"]

\* String.prototype.toLowerCase
ToLowerCase(str) ==
    [k \in DOMAIN str |-> IF str[k] \in DOMAIN UpperToLower THEN UpperToLower[str[k]]
                          ELSE str[k]]

\* String.prototype.includes
Includes(str, sub) ==
    \E k \in 0..(Len(str) - Len(sub)) : SubSeq(str, k + 1, k + Len(sub)) = sub

StrAction   == <<"A", "c", "t", "i", "o", "n">>
StrRPG      == <<"R", "P", "G">>
StrHanhDong == <<"H", "a", "n", "h", " ", "d", "o", "n", "g">>
StrNhapVai  == <<"N", "h", "a", "p", " ", "v", "a", "i">>
StrRolePlaying == <<"R", "o", "l", "e", "-", "P", "l", "a", "y", "i", "n", "g">>

\* the genres field of a listing: undefined, or a list of descriptions
NoGenres == [has |-> FALSE, list |-> <<>>]
Genres(list) == [has |-> TRUE, list |-> list]

\* the steamPriceVN field of a listing: undefined, or a price block
\* (initial is the price before the discount, in minor units like final)
NoPrice == [has |-> FALSE, initial |-> 0, final |-> 0, discount_percent |-> 0]
PriceBlock(final, discount) ==
    [has |-> TRUE, initial |-> (final \div (100 - discount)) * 100, final |-> final,
     discount_percent |-> discount]

\* a price as a decimal string: n hundredths, as (n / 100).toString() prints it
Decimal(n) == [units |-> n \div 100, hundredths |-> n % 100]

\* a candidate of the pool, lines 339-350: its aggregator prices are decimal
\* strings in the source currency, its savings a percentage
Candidate(id, savings) ==
    [id |-> id, savings |-> savings, price |-> Decimal(999 + id),
     normalPrice |-> Decimal(((999 + id) * 100) \div (100 - savings))]

\* The aggregator's answer, after fetchAllSteamSaleGames has filtered and
\* deduplicated it (lines 302-376): twelve candidates, each with savings >= 5.
AggregatorPool ==
    [k \in 1..12 |-> Candidate(k, IF k <= 4 THEN 60 - 10 * k ELSE 10)]

\* The storefront's price answer per app (fetchSteamPrice, lines 515-559):
\* a price block, or null when the request fails.
SteamPriceOf(id) ==
    CASE id = 1  -> PriceBlock(5000000, 50)
      [] id = 2  -> PriceBlock(10000000, 40)
      [] id = 3  -> NoPrice
      [] id = 4  -> PriceBlock(60000000, 20)
      [] id = 11 -> PriceBlock(20000000, 10)
      [] id = 12 -> PriceBlock(5000000, 6)
      [] OTHER   -> PriceBlock(30000000, 0)

\* The storefront's genre answer per app (lines 911-931): the genres of the
\* app, a response that is not ok (the producer returns []), or a network
\* error (rateLimitedFetch rejects).
SteamGenresOf(id) ==
    CASE id = 1  -> [kind |-> "ok", list |-> <<StrAction>>]
      [] id = 2  -> [kind |-> "ok", list |-> <<StrRPG>>]
      [] id = 3  -> [kind |-> "notOk", list |-> <<>>]
      [] id = 4  -> [kind |-> "error", list |-> <<>>]
      [] id = 11 -> [kind |-> "ok", list |-> <<StrAction, StrNhapVai>>]
      [] OTHER   -> [kind |-> "ok", list |-> <<StrRPG>>]

\* lines 417-452: the listing built from a candidate and its price answer
EnrichedGame(game, steamPrice) ==
    [id |-> game.id,
     normalPrice |-> IF steamPrice.has THEN Decimal(steamPrice.initial) ELSE game.normalPrice,
     salePrice |-> IF steamPrice.has THEN Decimal(steamPrice.final) ELSE game.price,
     savings |-> IF steamPrice.has THEN steamPrice.discount_percent ELSE game.savings,
     steamPriceVN |-> steamPrice,
     genres |-> NoGenres]

OnSaleAny(game) == TRUE
OnSaleRegionalOnly(game) == game.steamPriceVN.has /\ game.steamPriceVN.discount_percent >= 5
\* lines 476-483: the discount of at least 5%
OnSale(game) ==
    IF game.steamPriceVN.has THEN game.steamPriceVN.discount_percent >= 5
    ELSE game.savings >= 5

\* lines 397-399: saleGames.slice(pageNum * 10, pageNum * 10 + 10)
PageGames(saleGames, pageNum) ==
    LET startIndex == pageNum * 10
        endIndex == startIndex + 10
    IN  SubSeq(saleGames, startIndex + 1,
               IF endIndex <= Len(saleGames) THEN endIndex ELSE Len(saleGames))

\* lines 410-487: the page fetchSteamSaleGames returns for a slice
GamesOnSale(pageGames) ==
    LET enrichedGames == [k \in DOMAIN pageGames |->
                            EnrichedGame(pageGames[k], SteamPriceOf(pageGames[k].id))]
    IN  SelectSeq(enrichedGames, OnSale)

\* lines 792-805: genreMap[genreFilter] || [genreFilter]
GenreKeywords(genreFilter) ==
    CASE genreFilter = "action" -> {StrHanhDong, StrAction}
      [] genreFilter = "rpg"    -> {StrNhapVai, StrRPG, StrRolePlaying}
      [] OTHER -> {}

PriceMatchesInclusive(deal, priceFilter) ==
    LET priceInVND == IF deal.steamPriceVN.has THEN deal.steamPriceVN.final ELSE 0
    IN  CASE priceFilter = "under100k" -> priceInVND <= 10000000
          [] priceFilter = "100k-500k" -> priceInVND >= 10000000 /\ priceInVND <= 50000000
          [] priceFilter = "500k-1m"   -> priceInVND >= 50000000 /\ priceInVND <= 100000000
          [] OTHER -> TRUE

\* the switch of lines 776-785
PriceMatches(deal, priceFilter) ==
    LET priceInVND == IF deal.steamPriceVN.has THEN deal.steamPriceVN.final ELSE 0
    IN  CASE priceFilter = "under100k" -> priceInVND < 10000000
          [] priceFilter = "100k-500k" -> priceInVND >= 10000000 /\ priceInVND < 50000000
          [] priceFilter = "500k-1m"   -> priceInVND >= 50000000 /\ priceInVND < 100000000
          [] OTHER -> TRUE

GenreMatchesCaseSensitive(deal, genreFilter) ==
    /\ deal.genres.has
    /\ Len(deal.genres.list) > 0
    /\ \E g \in DOMAIN deal.genres.list : \E keyword \in GenreKeywords(genreFilter) :
         Includes(deal.genres.list[g], keyword)

\* lines 820-827
GenreMatches(deal, genreFilter) ==
    /\ deal.genres.has
    /\ Len(deal.genres.list) > 0
    /\ \E g \in DOMAIN deal.genres.list : \E keyword \in GenreKeywords(genreFilter) :
         Includes(ToLowerCase(deal.genres.list[g]), ToLowerCase(keyword))

ApplyFilterDroppingFirst(dealsToFilter, priceFilter, genreFilter) ==
    LET ByPrice(deal) == priceFilter = "all" \/ PriceMatches(deal, priceFilter)
        ByGenre(deal) == genreFilter = "all" \/ GenreMatches(deal, genreFilter)
        filtered == SelectSeq(SelectSeq(dealsToFilter, ByPrice), ByGenre)
    IN  IF priceFilter = "all" /\ genreFilter = "all" THEN filtered
        ELSE SubSeq(filtered, 2, Len(filtered))

\* applyFilterToDeals, lines 768-841: what it hands to setFilteredDeals
ApplyFilter(dealsToFilter, priceFilter, genreFilter) ==
    LET ByPrice(deal) == priceFilter = "all" \/ PriceMatches(deal, priceFilter)
        ByGenre(deal) == genreFilter = "all" \/ GenreMatches(deal, genreFilter)
    IN  SelectSeq(SelectSeq(dealsToFilter, ByPrice), ByGenre)

\* line 874: deals.filter(d => d.genres && d.genres.length > 0)
HasGenreData(deal) == deal.genres.has /\ Len(deal.genres.list) > 0
DealsWithGenreData(ds) == SelectSeq(ds, HasGenreData)
\* line 875: every listing has its steamAppID (lines 429, 446)
NeedsGenres(deal) == ~HasGenreData(deal)
DealsNeedingGenres(ds) == SelectSeq(ds, NeedsGenres)

-----------------------------------------------------------------------------
(***************************************************************************)
(* HomeTab: the handlers.                                                  *)
(*                                                                         *)
(* React commits a state update before the next event is dispatched, so a  *)
(* handler that starts reads the current state; a handler that is resumed  *)
(* after an await still reads what its closure captured when it started.   *)
(* The records of lm and bf hold what was captured.                        *)
(***************************************************************************)
GenreKeys == {"all", "action"}
PriceKeys == {"all", "under100k"}

RemoveAt(seq, k) == SubSeq(seq, 1, k - 1) \o SubSeq(seq, k + 1, Len(seq))

\* A continuation that is ready runs before the next event, timer or
\* network answer is dispatched: the synchronous rest of the for loop
\* (lines 127-150), a finally callback (line 143), the resumption after the
\* race or the Promise.all (lines 149, 154) and the caller's resumption after
\* parallelFetchWithLimit returned (line 947).
ContinuationReady ==
    \/ execPc \in {"loop", "done"}
    \/ \E i \in DOMAIN opState : opState[i] \in {"fulfilled", "rejected"}
    \/ execPc = "race" /\ \E j \in awaited : Removed(j)
    \/ execPc = "all" /\ \A j \in awaited : Removed(j)

UserEvent(returnedEarly) ==
    /\ ~ContinuationReady
    /\ ~loading
    /\ nEvents < MaxEvents
    /\ nEvents' = nEvents + 1
    /\ earlyReturn' = returnedEarly

\* fetchAllSteamSaleGames, lines 283-385: the pool it returns, and stores
\* when the aggregator answered
FetchedPool(aggOk) == IF aggOk THEN AggregatorPool ELSE <<>>

\* ---- fetchGameDeals, lines 494-513, with fetchSteamSaleGames 387-492 ----

\* onRefresh, lines 728-733, up to the await of line 502
OnRefresh ==
    /\ UserEvent("none")
    /\ fgInFlight.pool + fgInFlight.prices < MaxInFlight
    /\ refreshing' = TRUE
    /\ page' = 0
    /\ hasMore' = TRUE
    /\ allSteamGames' = <<>>
    /\ fgInFlight' = [fgInFlight EXCEPT !.pool = @ + 1]
    /\ UNCHANGED <<deals, filteredDeals, loadingMore, loading, selectedFilter,
                   selectedGenre, isFetchingGenres, lm, bf>>
    /\ UNCHANGED <<now, execVars, rateVars, cacheVars, pureVars>>

\* the aggregator answers a fetchGameDeals call: lines 293-380 or 381-384,
\* then lines 397-406; with no candidates the call finishes, lines 503-511
FetchDealsPoolAnswer ==
    /\ ~ContinuationReady
    /\ fgInFlight.pool > 0
    /\ \E aggOk \in BOOLEAN :
         LET saleGames == FetchedPool(aggOk)
             pageGames == PageGames(saleGames, 0)
         IN  /\ allSteamGames' = IF aggOk THEN saleGames ELSE allSteamGames
             /\ IF pageGames = <<>>
                THEN /\ hasMore' = FALSE
                     /\ deals' = <<>>
                     /\ filteredDeals' = <<>>
                     /\ page' = 1
                     /\ loading' = FALSE
                     /\ refreshing' = FALSE
                     /\ fgInFlight' = [fgInFlight EXCEPT !.pool = @ - 1]
                ELSE /\ fgInFlight' = [pool |-> fgInFlight.pool - 1,
                                       prices |-> fgInFlight.prices + 1]
                     /\ UNCHANGED <<hasMore, deals, filteredDeals, page, loading, refreshing>>
    /\ UNCHANGED <<loadingMore, selectedFilter, selectedGenre, isFetchingGenres,
                   lm, bf, nEvents, earlyReturn>>
    /\ UNCHANGED <<now, execVars, rateVars, cacheVars, pureVars>>

\* the prices of page 0 are in: lines 475-487, then 503-511
FetchDealsFinish ==
    /\ ~ContinuationReady
    /\ fgInFlight.prices > 0
    /\ LET newGames == GamesOnSale(PageGames(AggregatorPool, 0))
       IN  /\ deals' = newGames
           /\ filteredDeals' = newGames
    /\ page' = 1
    /\ loading' = FALSE
    /\ refreshing' = FALSE
    /\ fgInFlight' = [fgInFlight EXCEPT !.prices = @ - 1]
    /\ UNCHANGED <<hasMore, loadingMore, allSteamGames, selectedFilter, selectedGenre,
                   isFetchingGenres, lm, bf, nEvents, earlyReturn>>
    /\ UNCHANGED <<now, execVars, rateVars, cacheVars, pureVars>>

\* ---- loadMoreGames, lines 690-726 ----

LoadMoreBlockedByHasMoreOnly(isLoadingMore, more) == ~more
\* line 693: if (loadingMore || !hasMore)
LoadMoreBlocked(isLoadingMore, more) == isLoadingMore \/ ~more

\* lines 704-720 and 724: what a loadMoreGames call does with the page it got
LoadMoreApply(c, newGames) ==
    /\ IF Len(newGames) > 0
       THEN LET updatedDeals == c.deals \o newGames
            IN  /\ deals' = updatedDeals
                /\ filteredDeals' =
                     IF c.selectedFilter = "all" /\ c.selectedGenre = "all"
                     THEN updatedDeals
                     ELSE ApplyFilter(updatedDeals, c.selectedFilter, c.selectedGenre)
                /\ page' = c.page + 1
                /\ UNCHANGED hasMore
       ELSE /\ hasMore' = FALSE
            /\ UNCHANGED <<deals, filteredDeals, page>>
    /\ loadingMore' = FALSE

\* onEndReached: lines 690-701 up to the first await that waits for the
\* network.  With a cached pool whose slice is empty, fetchSteamSaleGames
\* returns at line 405 without waiting and the call finishes at once.
LoadMoreGames ==
    /\ UserEvent(IF LoadMoreBlocked(loadingMore, hasMore) THEN "loadMoreGames" ELSE "none")
    /\ Len(lm) < MaxInFlight
    /\ IF LoadMoreBlocked(loadingMore, hasMore)
       THEN UNCHANGED <<deals, filteredDeals, page, hasMore, loadingMore, lm>>
       ELSE LET c == [deals |-> deals, page |-> page, selectedFilter |-> selectedFilter,
                      selectedGenre |-> selectedGenre, saleGames |-> allSteamGames]
            IN  IF allSteamGames = <<>>
                THEN /\ lm' = Append(lm, [c EXCEPT !.saleGames = <<>>] @@ [phase |-> "pool"])
                     /\ loadingMore' = TRUE
                     /\ UNCHANGED <<deals, filteredDeals, page, hasMore>>
                ELSE IF PageGames(allSteamGames, page) = <<>>
                THEN /\ hasMore' = FALSE
                     /\ UNCHANGED <<deals, filteredDeals, page, loadingMore, lm>>
                ELSE /\ lm' = Append(lm, c @@ [phase |-> "prices"])
                     /\ loadingMore' = TRUE
                     /\ UNCHANGED <<deals, filteredDeals, page, hasMore>>
    /\ UNCHANGED <<loading, refreshing, allSteamGames, selectedFilter, selectedGenre,
                   isFetchingGenres, fgInFlight, bf>>
    /\ UNCHANGED <<now, execVars, rateVars, cacheVars, pureVars>>

\* the aggregator answers a loadMoreGames call that found no cached pool
LoadMorePoolAnswer ==
    /\ ~ContinuationReady
    /\ \E k \in DOMAIN lm, aggOk \in BOOLEAN :
         /\ lm[k].phase = "pool"
         /\ LET saleGames == FetchedPool(aggOk)
                pageGames == PageGames(saleGames, lm[k].page)
            IN  /\ allSteamGames' = IF aggOk THEN saleGames ELSE allSteamGames
                /\ IF pageGames = <<>>
                   THEN /\ LoadMoreApply(lm[k], <<>>)
                        /\ lm' = RemoveAt(lm, k)
                   ELSE /\ lm' = [lm EXCEPT ![k] = [@ EXCEPT !.phase = "prices",
                                                             !.saleGames = saleGames]]
                        /\ UNCHANGED <<deals, filteredDeals, page, hasMore, loadingMore>>
    /\ UNCHANGED <<loading, refreshing, selectedFilter, selectedGenre,
                   isFetchingGenres, fgInFlight, bf, nEvents, earlyReturn>>
    /\ UNCHANGED <<now, execVars, rateVars, cacheVars, pureVars>>

\* the prices of the page are in: lines 475-487, then 702-725
LoadMoreFinish ==
    /\ ~ContinuationReady
    /\ \E k \in DOMAIN lm :
         /\ lm[k].phase = "prices"
         /\ LoadMoreApply(lm[k], GamesOnSale(PageGames(lm[k].saleGames, lm[k].page)))
         /\ lm' = RemoveAt(lm, k)
    /\ UNCHANGED <<loading, refreshing, allSteamGames, selectedFilter, selectedGenre,
                   isFetchingGenres, fgInFlight, bf, nEvents, earlyReturn>>
    /\ UNCHANGED <<now, execVars, rateVars, cacheVars, pureVars>>

\* ---- filterDealsByPrice, lines 851-855 ----
FilterDealsByPrice ==
    /\ UserEvent("none")
    /\ \E filter \in PriceKeys :
         /\ selectedFilter' = filter
         /\ filteredDeals' = ApplyFilter(deals, filter, selectedGenre)
    /\ UNCHANGED <<deals, page, hasMore, loadingMore, loading, refreshing, allSteamGames,
                   selectedGenre, isFetchingGenres, fgInFlight, lm, bf>>
    /\ UNCHANGED <<now, execVars, rateVars, cacheVars, pureVars>>

\* ---- filterDealsByGenre, lines 857-993 ----

SkipsBackfillIgnoringGuard(genre, fetching, ds) ==
    \/ genre = "all"
    \/ Len(DealsNeedingGenres(ds)) = 0
    \/ 2 * Len(DealsWithGenreData(ds)) > Len(ds)
\* lines 861, 867 and 880: the three returns before the fetch loop
\* (dealsWithGenreData.length > deals.length * 0.5, in integers)
SkipsBackfill(genre, fetching, ds) ==
    \/ genre = "all"
    \/ fetching
    \/ Len(DealsNeedingGenres(ds)) = 0
    \/ 2 * Len(DealsWithGenreData(ds)) > Len(ds)

\* line 902: dealsNeedingGenres.slice(i, i + batchSize)
BatchOf(needing, i) ==
    SubSeq(needing, i + 1, IF i + batchSize <= Len(needing) THEN i + batchSize ELSE Len(needing))

\* line 935: updatedDeals.findIndex(d => d.dealID === deal.dealID), 0 for -1;
\* the dealID of a listing is made from its app id (lines 420, 437)
FindDealIndex(ds, deal) ==
    IF \E k \in DOMAIN ds : ds[k].id = deal.id
    THEN CHOOSE k \in DOMAIN ds : ds[k].id = deal.id /\ \A j \in 1..(k - 1) : ds[j].id # deal.id
    ELSE 0

GuardKeptAfterBackfill == TRUE
\* line 986: isFetchingGenres.current = false
GuardAfterBackfill == FALSE

\* a tap on a genre: lines 857-893 and, unless it returns early, the start
\* of the first batch, lines 895-905
FilterDealsByGenre ==
    /\ Len(bf) < MaxInFlight
    /\ \E genre \in GenreKeys :
         /\ UserEvent(IF SkipsBackfill(genre, isFetchingGenres, deals)
                      THEN "filterDealsByGenre" ELSE "none")
         /\ selectedGenre' = genre
         /\ filteredDeals' = ApplyFilter(deals, selectedFilter, genre)
         /\ IF SkipsBackfill(genre, isFetchingGenres, deals)
            THEN UNCHANGED <<isFetchingGenres, bf, execVars>>
            ELSE LET needing == DealsNeedingGenres(deals)
                 IN  /\ isFetchingGenres' = TRUE
                     /\ bf' = Append(bf, [updatedDeals |-> deals, needing |-> needing,
                                          i |-> 0, genre |-> genre,
                                          selectedFilter |-> selectedFilter,
                                          phase |-> "batch"])
                     /\ ExecInvoke(BatchOf(needing, 0))
    /\ UNCHANGED <<deals, page, hasMore, loadingMore, loading, refreshing, allSteamGames,
                   selectedFilter, fgInFlight, lm>>
    /\ UNCHANGED <<now, rateVars, cacheVars, pureVars>>

homeNonExec == <<homeVars, now, rateVars, cacheVars, pureVars>>

\* the steps of parallelFetchWithLimit on the batch
BatchLoopStart  == ExecLoopStart /\ UNCHANGED homeNonExec
BatchLoopExit   == ExecLoopExit /\ UNCHANGED homeNonExec
BatchFinally    == (\E i \in DOMAIN opState : ExecFinally(i)) /\ UNCHANGED homeNonExec
BatchRaceResume == ExecRaceResume /\ UNCHANGED homeNonExec
BatchAllResolve == ExecAllResolve /\ UNCHANGED homeNonExec

\* the per-item operation of lines 907-945 settles: the genres are attached
\* to the listing in updatedDeals (lines 935-938), or, on a network error,
\* the catch of line 941 returns null
GenreFetchSettles ==
    /\ bf # <<>>
    /\ ~ContinuationReady
    /\ \E i \in DOMAIN opState :
         LET b == bf[Len(bf)]
             deal == items[i]
             answer == SteamGenresOf(deal.id)
             dealIndex == FindDealIndex(b.updatedDeals, deal)
         IN  IF answer.kind = "error"
             THEN /\ ExecSettle(i, "return", JsNull)
                  /\ UNCHANGED bf
             ELSE /\ ExecSettle(i, "return", JsArray(Len(answer.list)))
                  /\ bf' = [bf EXCEPT ![Len(bf)].updatedDeals =
                              IF dealIndex # 0
                              THEN [@ EXCEPT ![dealIndex].genres = Genres(answer.list)]
                              ELSE @]
    /\ UNCHANGED <<deals, filteredDeals, page, hasMore, loadingMore, loading, refreshing,
                   allSteamGames, selectedFilter, selectedGenre, isFetchingGenres,
                   fgInFlight, lm, nEvents, earlyReturn>>
    /\ UNCHANGED <<now, rateVars, cacheVars, pureVars>>

\* parallelFetchWithLimit has returned: lines 950-951, then the delay of
\* line 957 or, after the last batch, lines 982-986
BackfillBatchDone ==
    /\ bf # <<>>
    /\ execPc = "done"
    /\ LET b == bf[Len(bf)]
       IN  /\ b.phase = "batch"
           /\ deals' = b.updatedDeals
           /\ filteredDeals' = ApplyFilter(b.updatedDeals, b.selectedFilter, b.genre)
           /\ IF b.i + batchSize < Len(b.needing)
              THEN /\ bf' = [bf EXCEPT ![Len(bf)].phase = "delay"]
                   /\ UNCHANGED isFetchingGenres
              ELSE /\ bf' = SubSeq(bf, 1, Len(bf) - 1)
                   /\ isFetchingGenres' = GuardAfterBackfill
    /\ execPc' = "off"
    /\ UNCHANGED <<items, opState, results, executing, loopIdx, awaited, thrown>>
    /\ UNCHANGED <<page, hasMore, loadingMore, loading, refreshing, allSteamGames,
                   selectedFilter, selectedGenre, fgInFlight, lm, nEvents, earlyReturn>>
    /\ UNCHANGED <<now, rateVars, cacheVars, pureVars>>

\* the delay between batches has passed, line 957: the next batch starts
BackfillNextBatch ==
    /\ bf # <<>>
    /\ ~ContinuationReady
    /\ LET b == bf[Len(bf)]
       IN  /\ b.phase = "delay"
           /\ bf' = [bf EXCEPT ![Len(bf)].phase = "batch", ![Len(bf)].i = b.i + batchSize]
           /\ ExecInvoke(BatchOf(b.needing, b.i + batchSize))
    /\ UNCHANGED <<deals, filteredDeals, page, hasMore, loadingMore, loading, refreshing,
                   allSteamGames, selectedFilter, selectedGenre, isFetchingGenres,
                   fgInFlight, lm, nEvents, earlyReturn>>
    /\ UNCHANGED <<now, rateVars, cacheVars, pureVars>>

-----------------------------------------------------------------------------
(***************************************************************************)
(* SpecHome: the Home tab from its mount (the effect of line 648 has       *)
(* called fetchGameDeals) under up to MaxEvents user events in any order,  *)
(* the awaited requests settling in any order.                             *)
(***************************************************************************)
InitHome ==
    /\ deals = <<>> /\ filteredDeals = <<>> /\ page = 0
    /\ hasMore = TRUE /\ loadingMore = FALSE /\ loading = TRUE /\ refreshing = FALSE
    /\ allSteamGames = <<>> /\ selectedFilter = "all" /\ selectedGenre = "all"
    /\ isFetchingGenres = FALSE
    /\ fgInFlight = [pool |-> 1, prices |-> 0] /\ lm = <<>> /\ bf = <<>>
    /\ nEvents = 0 /\ earlyReturn = "none"
    /\ now = ClockStart /\ ExecOff /\ RateOff /\ CacheOff /\ PureOff

NextHome ==
    \/ OnRefresh
    \/ FetchDealsPoolAnswer
    \/ FetchDealsFinish
    \/ LoadMoreGames
    \/ LoadMorePoolAnswer
    \/ LoadMoreFinish
    \/ FilterDealsByPrice
    \/ FilterDealsByGenre
    \/ BatchLoopStart
    \/ BatchLoopExit
    \/ GenreFetchSettles
    \/ BatchFinally
    \/ BatchRaceResume
    \/ BatchAllResolve
    \/ BackfillBatchDone
    \/ BackfillNextBatch

SpecHome == InitHome /\ [][NextHome]_vars

\* the steps that need no user: a network answer, a timer, a continuation
HomeProgress ==
    \/ FetchDealsPoolAnswer \/ FetchDealsFinish
    \/ LoadMorePoolAnswer \/ LoadMoreFinish
    \/ BatchLoopStart \/ BatchLoopExit \/ GenreFetchSettles \/ BatchFinally
    \/ BatchRaceResume \/ BatchAllResolve
    \/ BackfillBatchDone \/ BackfillNextBatch

\* while a request, a timer or a continuation is pending, one of them
\* eventually runs; the user is under no obligation to tap
FairSpecHome == SpecHome /\ WF_vars(HomeProgress)

\* C7: at no time are two loadMoreGames executions past the guard at once,
\* and a load-more request that arrives while another is outstanding starts
\* nothing and changes neither deals, nor page, nor hasMore.
C7_LoadMoreIgnoredWhileOutstanding ==
    /\ [](Len(lm) <= 1)
    /\ [][(LoadMoreGames /\ lm # <<>>) =>
            UNCHANGED <<deals, page, hasMore, lm, loadingMore>>]_vars

\* a load-more request has just been ignored while another one awaits its
\* page
C7_Witness_IgnoredWhileOutstanding ==
    /\ earlyReturn = "loadMoreGames"
    /\ Len(lm) = 1
    /\ loadingMore /\ hasMore

\* the listing d of the working set is still in ds with the enrichment it had
KeptIn(d, ds) ==
    \E j \in DOMAIN ds :
        /\ ds[j].id = d.id
        /\ d.steamPriceVN.has => ds[j].steamPriceVN = d.steamPriceVN
        /\ d.genres.has => ds[j].genres = d.genres

\* C8: except when fetchGameDeals replaces the whole set, no step removes a
\* listing from deals or takes away a price block or genres attached to it.
C8_ListingsNeverLost ==
    [][(FetchDealsPoolAnswer \/ FetchDealsFinish) \/
       \A k \in DOMAIN deals : KeptIn(deals[k], deals')]_vars

\* C9: the in-progress guard is set only while a backfill is running, and
\* once set it is eventually cleared, whether the genre fetches succeed or
\* fail, given that every fetch settles.
C9_GuardEventuallyCleared ==
    /\ [](isFetchingGenres => bf # <<>>)
    /\ (isFetchingGenres ~> ~isFetchingGenres)

\* a backfill has run to its end with one fetch that failed (app 4, left
\* without genres) and others that succeeded, and the guard is clear
C9_Witness_ClearedAfterFailure ==
    /\ ~isFetchingGenres /\ bf = <<>>
    /\ execPc = "off" /\ Len(items) > 0
    /\ \E k \in DOMAIN deals : deals[k].id = 4 /\ ~deals[k].genres.has
    /\ \E k \in DOMAIN deals : HasGenreData(deals[k])

\* C10: a genre selection that names 'all', or comes while a backfill is in
\* progress, or finds genre data on more than half of deals, starts no fetch
\* loop and leaves deals unchanged; at most one backfill loop is active.
C10_SkippedSelectionStartsNoBackfill ==
    /\ [](Len(bf) <= 1)
    /\ [][(/\ FilterDealsByGenre
           /\ \/ selectedGenre' = "all"
              \/ bf # <<>>
              \/ 2 * Len(DealsWithGenreData(deals)) > Len(deals)) =>
            UNCHANGED <<deals, bf, isFetchingGenres, execVars>>]_vars

\* a genre other than 'all' has just been selected while a backfill was in
\* progress, and the selection returned at its guard
C10_Witness_SkippedWhileInProgress ==
    /\ earlyReturn = "filterDealsByGenre"
    /\ selectedGenre # "all"
    /\ isFetchingGenres /\ Len(bf) = 1
    /\ 2 * Len(DealsWithGenreData(deals)) <= Len(deals)

-----------------------------------------------------------------------------
(***************************************************************************)
(* fetchSteamPrice (lines 515-559) and fetchGameDetail (lines 561-632):    *)
(* one call of either, with an empty cache for its key, so that            *)
(* getCachedOrFetch runs the producer and hands on what it returns or      *)
(* throws.  A request is logged when the producer calls rateLimitedFetch.  *)
(***************************************************************************)
\* lines 515 and 561: retries = 2
DefaultRetries == 2
\* lines 553 and 624: the wait before a retry
BackoffDelay == 1000
\* lines 533 and 576: the wait after a 429
ThrottleDelay == 2000
\* the step of the clock while a timer is pending
RetryTick == BackoffDelay \div 2

\* What the storefront may answer to a request:
\*   "ok"        a JSON body with the app's data (and price_overview)
\*   "noData"    a JSON body without them
\*   "http500"   a response that is not ok, other than 429
\*   "http429"   the throttling response
\*   "nonJson"   an ok response whose text does not start with '{'
\*   "badJson"   an ok response whose text JSON.parse rejects
\*   "netError"  no response: fetch rejects
Responses == {"ok", "noData", "http500", "http429", "nonJson", "badJson", "netError"}

\* lines 527-548 and 573-589: does the producer throw on this response?
ProducerThrows(fn, response) ==
    IF fn = "fetchSteamPrice"
    THEN response \in {"badJson", "netError"}
    ELSE response \in {"http500", "http429", "nonJson", "badJson", "netError"}

\* what the call returns when the producer does not throw: lines 535, 543,
\* 548 and 520; lines 589, 592-596 and 619-620
ResultOf(fn, response) ==
    IF fn = "fetchSteamPrice"
    THEN IF response = "ok" THEN "price" ELSE "null"
    ELSE IF response = "ok" THEN "shown" ELSE "alert"

\* lines 557 and 628: what the call returns when it gives up
GaveUp(fn) == IF fn = "fetchSteamPrice" THEN "null" ELSE "alert"

CanRetryAtZero(r) == r >= 0
\* lines 551 and 622: if (retries > 0)
CanRetry(r) == r > 0

\* the producer calls rateLimitedFetch, lines 522 and 568
RtIssue == rtLog' = Append(rtLog, [issued |-> now, response |-> "pending", settled |-> 0,
                                   retries |-> rtRetries])

\* the producer has finished with the response: the catch of lines 550-558
\* and 621-628, or the return
RtSettle(response) ==
    /\ rtLog' = [rtLog EXCEPT ![Len(rtLog)].response = response,
                              ![Len(rtLog)].settled = now]
    /\ IF ProducerThrows(rtFn, response)
       THEN IF CanRetry(rtRetries)
            THEN /\ rtPc' = "backoff"
                 /\ rtDue' = now + BackoffDelay
                 /\ UNCHANGED rtResult
            ELSE /\ rtPc' = "returned"
                 /\ rtResult' = GaveUp(rtFn)
                 /\ UNCHANGED rtDue
       ELSE /\ rtPc' = "returned"
            /\ rtResult' = ResultOf(rtFn, response)
            /\ UNCHANGED rtDue
    /\ UNCHANGED <<rtFn, rtRetries>>

retryOtherVars ==
    <<execVars, rateVars, cacheVars, homeVars, pageVars, poolVars, classVars, lateVars>>

\* the storefront answers, or the request fails; a 429 starts the wait of
\* lines 533 and 576
RetryResponse ==
    /\ rtPc = "request"
    /\ \E response \in Responses :
         IF response = "http429"
         THEN /\ rtPc' = "throttled"
              /\ rtDue' = now + ThrottleDelay
              /\ rtLog' = [rtLog EXCEPT ![Len(rtLog)].response = response]
              /\ UNCHANGED <<rtFn, rtRetries, rtResult>>
         ELSE RtSettle(response)
    /\ UNCHANGED <<now, retryOtherVars>>

\* the wait after a 429 is over: return null (line 535) or throw (line 578)
RetryThrottleOver ==
    /\ rtPc = "throttled"
    /\ now >= rtDue
    /\ RtSettle("http429")
    /\ UNCHANGED <<now, retryOtherVars>>

\* the backoff is over: the recursive call of lines 554 and 625
RetryAgain ==
    /\ rtPc = "backoff"
    /\ now >= rtDue
    /\ rtRetries' = rtRetries - 1
    /\ rtPc' = "request"
    /\ RtIssue
    /\ UNCHANGED <<rtFn, rtDue, rtResult>>
    /\ UNCHANGED <<now, retryOtherVars>>

\* time passes while a timer is pending
RetryClock ==
    /\ rtPc \in {"throttled", "backoff"}
    /\ now < rtDue
    /\ now' = now + RetryTick
    /\ UNCHANGED <<retryVars, retryOtherVars>>

InitRetry ==
    /\ rtFn \in {"fetchSteamPrice", "fetchGameDetail"}
    /\ rtRetries \in 0..DefaultRetries
    /\ rtPc = "request"
    /\ rtDue = 0
    /\ rtLog = <<[issued |-> 0, response |-> "pending", settled |-> 0, retries |-> rtRetries]>>
    /\ rtResult = "none"
    /\ now = 0
    /\ ExecOff /\ RateOff /\ CacheOff /\ HomeOff /\ PageOff /\ PoolOff /\ ClassOff
    /\ LateOff

NextRetry == RetryResponse \/ RetryThrottleOver \/ RetryAgain \/ RetryClock

SpecRetry == InitRetry /\ [][NextRetry]_vars

\* every response arrives, every timer fires, time passes
FairSpecRetry == SpecRetry /\ WF_vars(NextRetry)

\* C11: a price-enrichment call that got a 429 gives up (returns null) only
\* when its retry budget is exhausted; with retries left it tries again.
C11_ThrottledPriceRequestIsRetried ==
    ( /\ rtFn = "fetchSteamPrice"
      /\ rtPc = "returned"
      /\ rtLog[Len(rtLog)].response = "http429" ) =>
        rtLog[Len(rtLog)].retries = 0

\* C12: either function issues at most 1 + retries requests, a retry no
\* sooner than 1 s after the failure before it, none after it has returned,
\* and it does return.
C12_AtMostOnePlusRetriesAttempts ==
    /\ [](Len(rtLog) <= 1 + rtLog[1].retries)
    /\ [](\A k \in 2..Len(rtLog) : rtLog[k].issued - rtLog[k - 1].settled >= 1000)
    /\ [][rtPc = "returned" => rtLog' = rtLog]_vars
    /\ <>(rtPc = "returned")

\* fetchGameDetail, called with the default budget, has given up after three
\* requests, one of them throttled
C12_Witness_GaveUpAfterThree ==
    /\ rtFn = "fetchGameDetail"
    /\ rtLog[1].retries = DefaultRetries
    /\ rtPc = "returned" /\ rtResult = "alert"
    /\ Len(rtLog) = 1 + DefaultRetries
    /\ \E k \in DOMAIN rtLog : rtLog[k].response = "http429"
    /\ rtLog[Len(rtLog)].response = "netError"

-----------------------------------------------------------------------------
(***************************************************************************)
(* fetchSteamSaleGames, lines 410-487: the enrichment of one slice of the  *)
(* pool, one game per iteration of the for loop, and the filter on the     *)
(* enriched games.  The slice is drawn from what the pool can hold: every  *)
(* candidate of the pool has savings of at least 5 (lines 303 and 373).    *)
(***************************************************************************)
MaxPageGames == 2

\* the savings of a candidate of the pool, in percent
PoolSavings == {5, 30}

\* What line 415 may give for a game: null, a price block, or an exception
\* anywhere in lines 415-451 (a block without discount_percent, line 441).
PriceAnswers ==
    {[kind |-> "null", block |-> NoPrice], [kind |-> "throws", block |-> NoPrice]}
    \cup { [kind |-> "block", block |-> PriceBlock(5000000, d)] : d \in {0, 4, 5, 50} }

pageOtherVars == <<now, execVars, rateVars, cacheVars, homeVars, retryVars, poolVars,
                   classVars, lateVars>>

\* one iteration of the loop of line 412: lines 415-451, or the catch of
\* lines 453-472
PageEnrichNext ==
    /\ pgPc = "enrich"
    /\ Len(pgEnriched) < Len(pgGames)
    /\ \E answer \in PriceAnswers :
         LET game == pgGames[Len(pgEnriched) + 1]
         IN  /\ pgAnswers' = Append(pgAnswers, answer)
             /\ pgEnriched' = Append(pgEnriched,
                                     IF answer.kind = "block"
                                     THEN EnrichedGame(game, answer.block)
                                     ELSE EnrichedGame(game, NoPrice))
    /\ UNCHANGED <<pgGames, pgOnSale, pgPc>>
    /\ UNCHANGED pageOtherVars

\* the loop is over: lines 475-487
PageReturn ==
    /\ pgPc = "enrich"
    /\ Len(pgEnriched) = Len(pgGames)
    /\ pgOnSale' = SelectSeq(pgEnriched, OnSale)
    /\ pgPc' = "returned"
    /\ UNCHANGED <<pgGames, pgAnswers, pgEnriched>>
    /\ UNCHANGED pageOtherVars

InitPage ==
    /\ \E n \in 1..MaxPageGames : \E sv \in [1..n -> PoolSavings] :
         pgGames = [k \in 1..n |-> Candidate(k, sv[k])]
    /\ pgAnswers = <<>> /\ pgEnriched = <<>> /\ pgOnSale = <<>>
    /\ pgPc = "enrich"
    /\ now = 0
    /\ ExecOff /\ RateOff /\ CacheOff /\ HomeOff /\ RetryOff /\ PoolOff /\ ClassOff
    /\ LateOff

NextPage == PageEnrichNext \/ PageReturn

SpecPage == InitPage /\ [][NextPage]_vars

\* C13: a candidate whose price enrichment gave null or threw is in the
\* page returned, with the aggregator's normalPrice, salePrice and savings
\* and without a regional price block (its savings being at least 5).
C13_FailedEnrichmentKeepsCandidate ==
    pgPc = "returned" =>
      \A k \in DOMAIN pgGames :
        (pgAnswers[k].kind \in {"null", "throws"} /\ pgGames[k].savings >= 5) =>
          \E j \in DOMAIN pgOnSale :
            /\ pgOnSale[j].id = pgGames[k].id
            /\ pgOnSale[j].normalPrice = pgGames[k].normalPrice
            /\ pgOnSale[j].salePrice = pgGames[k].price
            /\ pgOnSale[j].savings = pgGames[k].savings
            /\ ~pgOnSale[j].steamPriceVN.has

\* a page was returned in which one game's enrichment threw, another's gave
\* null, and both are listed
C13_Witness_FailedCandidatesListed ==
    /\ pgPc = "returned"
    /\ \E k \in DOMAIN pgGames : pgAnswers[k].kind = "throws"
    /\ \E k \in DOMAIN pgGames : pgAnswers[k].kind = "null"
    /\ Len(pgOnSale) = 2

\* the discount the filter of lines 476-483 is to look at for game k of the
\* slice: the regional one when a block came, else the aggregator's
EffectiveDiscount(k) ==
    IF pgAnswers[k].kind = "block" THEN pgAnswers[k].block.discount_percent
    ELSE pgGames[k].savings

\* C14: every listing of the page returned has a discount of at least 5%,
\* regional when it has a price block and the aggregator's otherwise, and
\* every candidate of the slice with such a discount is in the page.
C14_PageHoldsExactlyTheDiscounted ==
    pgPc = "returned" =>
      /\ \A j \in DOMAIN pgOnSale :
           IF pgOnSale[j].steamPriceVN.has
           THEN pgOnSale[j].steamPriceVN.discount_percent >= 5
           ELSE pgOnSale[j].savings >= 5
      /\ \A k \in DOMAIN pgGames :
           EffectiveDiscount(k) >= 5 <=> \E j \in DOMAIN pgOnSale : pgOnSale[j].id = pgGames[k].id

\* a page was returned that keeps a game discounted by exactly 5% in the
\* region and drops one discounted by 4% there
C14_Witness_BoundaryKeptAndDropped ==
    /\ pgPc = "returned"
    /\ \E k \in DOMAIN pgGames :
         /\ pgAnswers[k].kind = "block" /\ pgAnswers[k].block.discount_percent = 4
         /\ \A j \in DOMAIN pgOnSale : pgOnSale[j].id # pgGames[k].id
    /\ \E j \in DOMAIN pgOnSale : pgOnSale[j].steamPriceVN.discount_percent = 5

-----------------------------------------------------------------------------
(***************************************************************************)
(* The content classifiers: the one inside fetchAllSteamSaleGames          *)
(* (index.tsx, lines 306-337) and classifyContent of the search screen     *)
(* (part_001, lines 128-156).  A title is a sequence of characters.        *)
(***************************************************************************)
StrEdition == <<"e", "d", "i", "t", "i", "o", "n">>
StrAll     == <<"a", "l", "l">>

\* index.tsx, lines 313-320
HomeBundleKeywords ==
    {<<"b", "u", "n", "d", "l", "e">>,
     <<"c", "o", "m", "p", "l", "e", "t", "e", " ", "e", "d", "i", "t", "i", "o", "n">>,
     <<"d", "e", "f", "i", "n", "i", "t", "i", "v", "e", " ", "e", "d", "i", "t", "i", "o", "n">>,
     <<"g", "o", "t", "y">>,
     <<"g", "a", "m", "e", " ", "o", "f", " ", "t", "h", "e", " ", "y", "e", "a", "r">>,
     <<"u", "l", "t", "i", "m", "a", "t", "e", " ", "e", "d", "i", "t", "i", "o", "n">>,
     <<"d", "e", "l", "u", "x", "e", " ", "e", "d", "i", "t", "i", "o", "n">>,
     <<"g", "o", "l", "d", " ", "e", "d", "i", "t", "i", "o", "n">>}

\* index.tsx, lines 326-334
HomeDLCKeywords ==
    {<<"d", "l", "c">>,
     <<"e", "x", "p", "a", "n", "s", "i", "o", "n">>,
     <<"s", "e", "a", "s", "o", "n", " ", "p", "a", "s", "s">>,
     <<"a", "d", "d", "-", "o", "n">>,
     <<"d", "o", "w", "n", "l", "o", "a", "d", "a", "b", "l", "e", " ", "c", "o", "n", "t", "e", "n", "t">>,
     <<"p", "a", "c", "k">>,
     <<" ", "-", " ">>,
     <<"c", "h", "a", "p", "t", "e", "r">>,
     <<"e", "p", "i", "s", "o", "d", "e">>}

\* part_001, lines 135-142
SearchBundleKeywords ==
    {<<"b", "u", "n", "d", "l", "e">>,
     <<"c", "o", "m", "p", "l", "e", "t", "e", " ", "e", "d", "i", "t", "i", "o", "n">>,
     <<"d", "e", "f", "i", "n", "i", "t", "i", "v", "e", " ", "e", "d", "i", "t", "i", "o", "n">>,
     <<"g", "o", "t", "y">>,
     <<"g", "a", "m", "e", " ", "o", "f", " ", "t", "h", "e", " ", "y", "e", "a", "r">>,
     <<"u", "l", "t", "i", "m", "a", "t", "e", " ", "e", "d", "i", "t", "i", "o", "n">>,
     <<"d", "e", "l", "u", "x", "e", " ", "e", "d", "i", "t", "i", "o", "n">>,
     <<"g", "o", "l", "d", " ", "e", "d", "i", "t", "i", "o", "n">>}

\* part_001, lines 145-150
SearchDLCKeywords ==
    {<<"d", "l", "c">>,
     <<"e", "x", "p", "a", "n", "s", "i", "o", "n">>,
     <<"s", "e", "a", "s", "o", "n", " ", "p", "a", "s", "s">>,
     <<"a", "d", "d", "-", "o", "n">>,
     <<"p", "a", "c", "k">>,
     <<" ", "-", " ">>}

IncludesAny(str, keywords) == \E keyword \in keywords : Includes(str, keyword)

ClassifiedAs(contentType) ==
    [contentType |-> contentType, isDLC |-> contentType = "DLC",
     isBundle |-> contentType = "Bundle"]

DLCFirst(isBundleTitle, isDLCTitle) ==
    IF isDLCTitle THEN ClassifiedAs("DLC")
    ELSE IF isBundleTitle THEN ClassifiedAs("Bundle")
    ELSE ClassifiedAs("Game")
\* the if / else if of both classifiers: the Bundle test comes first
BundleFirst(isBundleTitle, isDLCTitle) ==
    IF isBundleTitle THEN ClassifiedAs("Bundle")
    ELSE IF isDLCTitle THEN ClassifiedAs("DLC")
    ELSE ClassifiedAs("Game")

\* index.tsx, lines 306-337 and 347-349
HomeClassify(title) ==
    LET lower == ToLowerCase(title)
    IN  BundleFirst(\/ IncludesAny(lower, HomeBundleKeywords)
                    \/ Includes(lower, StrEdition) /\ Includes(lower, StrAll),
                    IncludesAny(lower, HomeDLCKeywords))

\* part_001, lines 128-156
classifyContent(title) ==
    LET titleLower == ToLowerCase(title)
    IN  BundleFirst(IncludesAny(titleLower, SearchBundleKeywords),
                    IncludesAny(titleLower, SearchDLCKeywords))

-----------------------------------------------------------------------------
(***************************************************************************)
(* fetchAllSteamSaleGames, lines 283-385: one call.  A row of the          *)
(* aggregator carries its dealID (here its position in the flattened       *)
(* answer), a steamAppID and a gameID (0 for one that is missing or        *)
(* empty), its savings in percent and its title; the price fields and the  *)
(* thumb are carried over unchanged and left out.                          *)
(***************************************************************************)
MaxRows == 3

StrPortal == <<"P", "o", "r", "t", "a", "l">>
StrPack   == <<"M", "a", "p", " ", "P", "a", "c", "k">>

RowShapes ==
    [steamAppID : {0, 1, 2}, gameID : {0, 1}, savings : {4, 5}, title : {StrPortal, StrPack}]

\* line 340: deal.steamAppID || deal.gameID
RowId(deal) == IF deal.steamAppID # 0 THEN deal.steamAppID ELSE deal.gameID

\* lines 303 and 373: parseFloat(savings) >= 5
MinSavings(savings) == savings >= 5

\* lines 304-351: the entry made from a row
PoolEntry(deal) ==
    LET class == HomeClassify(deal.title)
    IN  [id |-> RowId(deal), title |-> deal.title, dealID |-> deal.dealID,
         savings |-> deal.savings, isDLC |-> class.isDLC, isBundle |-> class.isBundle,
         type |-> class.contentType]

\* lines 302-351: filter, then map
AllGames(rows) ==
    LET kept == SelectSeq(rows, LAMBDA deal : MinSavings(deal.savings))
    IN  [k \in DOMAIN kept |-> PoolEntry(kept[k])]

LastIndexById(games, id) ==
    IF \E k \in DOMAIN games : games[k].id = id
    THEN CHOOSE k \in DOMAIN games : games[k].id = id /\ \A j \in (k + 1)..Len(games) : games[j].id # id
    ELSE 0

\* line 374: self.findIndex(g => g.id === game.id), 0 for -1
FindIndexById(games, id) ==
    IF \E k \in DOMAIN games : games[k].id = id
    THEN CHOOSE k \in DOMAIN games : games[k].id = id /\ \A j \in 1..(k - 1) : games[j].id # id
    ELSE 0

\* lines 371-375: allGames.filter((game, index, self) => ...), from index k on
RECURSIVE UniqueFrom(_, _)
UniqueFrom(games, k) ==
    IF k > Len(games) THEN <<>>
    ELSE (IF /\ games[k].id # 0
             /\ MinSavings(games[k].savings)
             /\ k = FindIndexById(games, games[k].id)
          THEN <<games[k]>> ELSE <<>>) \o UniqueFrom(games, k + 1)

\* what a call leaves alone: of the screen's state it writes allSteamGames only
poolOtherVars ==
    <<now, execVars, rateVars, cacheVars, retryVars, pageVars, classVars, lateVars,
      deals, filteredDeals, page, hasMore, loadingMore, loading, refreshing,
      selectedFilter, selectedGenre, isFetchingGenres, fgInFlight, lm, bf, nEvents,
      earlyReturn>>

\* the ten pages have arrived: lines 293-380
PoolAnswer ==
    /\ poolPc = "fetching"
    /\ uniqueGames' = UniqueFrom(AllGames(allDeals), 1)
    /\ allSteamGames' = uniqueGames'
    /\ poolPc' = "returned"
    /\ UNCHANGED allDeals
    /\ UNCHANGED poolOtherVars

\* a request failed: the catch of lines 381-384
PoolError ==
    /\ poolPc = "fetching"
    /\ uniqueGames' = <<>>
    /\ poolPc' = "failed"
    /\ UNCHANGED allSteamGames
    /\ UNCHANGED allDeals
    /\ UNCHANGED poolOtherVars

InitPool ==
    /\ \E n \in 0..MaxRows : \E shapes \in [1..n -> RowShapes] :
         allDeals = [k \in 1..n |-> [dealID |-> k] @@ shapes[k]]
    /\ uniqueGames = <<>>
    /\ poolPc = "fetching"
    /\ now = 0
    /\ ExecOff /\ RateOff /\ CacheOff /\ HomeOff /\ RetryOff /\ PageOff /\ ClassOff
    /\ LateOff

NextPool == PoolAnswer \/ PoolError

SpecPool == InitPool /\ [][NextPool]_vars

\* C16 as stated: in the pool no two entries share an identifier, and the
\* entry of an identifier is made from the first row of the answer that
\* carried it.
C16_Original_FirstRowOfAnswerKept ==
    poolPc = "returned" =>
      /\ \A i, j \in DOMAIN uniqueGames : uniqueGames[i].id = uniqueGames[j].id => i = j
      /\ \A i \in DOMAIN uniqueGames : \A k \in DOMAIN allDeals :
           uniqueGames[i].dealID = allDeals[k].dealID =>
             \A j \in 1..(k - 1) : RowId(allDeals[j]) # RowId(allDeals[k])

\* C16: in the pool no two entries share an identifier, and the entry of an
\* identifier is made from the first row carrying it among the rows with
\* savings of at least 5; every identifier carried by such a row is in the
\* pool, and an entry has the fields of its row.
C16_FirstDiscountedRowKept ==
    poolPc = "returned" =>
      /\ \A i, j \in DOMAIN uniqueGames : uniqueGames[i].id = uniqueGames[j].id => i = j
      /\ \A i \in DOMAIN uniqueGames : \E k \in DOMAIN allDeals :
           /\ uniqueGames[i].dealID = allDeals[k].dealID
           /\ uniqueGames[i].id = RowId(allDeals[k])
           /\ uniqueGames[i].savings = allDeals[k].savings
           /\ uniqueGames[i].title = allDeals[k].title
           /\ allDeals[k].savings >= 5
           /\ \A j \in 1..(k - 1) :
                allDeals[j].savings >= 5 => RowId(allDeals[j]) # RowId(allDeals[k])
      /\ \A k \in DOMAIN allDeals :
           (allDeals[k].savings >= 5 /\ RowId(allDeals[k]) # 0) =>
             \E i \in DOMAIN uniqueGames : uniqueGames[i].id = RowId(allDeals[k])
      /\ allSteamGames = uniqueGames

\* three rows carry one identifier, the first with savings under 5 and by
\* its steamAppID, the others by their gameID: the pool holds the second
C16_Witness_SecondRowKept ==
    /\ poolPc = "returned"
    /\ Len(allDeals) = 3
    /\ \A k \in 1..3 : RowId(allDeals[k]) = 1
    /\ allDeals[1].savings < 5 /\ allDeals[1].steamAppID = 1
    /\ allDeals[2].savings >= 5 /\ allDeals[2].steamAppID = 0
    /\ allDeals[3].savings >= 5
    /\ Len(uniqueGames) = 1 /\ uniqueGames[1].dealID = 2

-----------------------------------------------------------------------------
(***************************************************************************)
(* The two classifiers applied to one title.  A title is one to            *)
(* MaxTitleParts parts joined by a space, as the stores write them.        *)
(***************************************************************************)
MaxTitleParts == 2

PlainParts ==
    {<<"P", "o", "r", "t", "a", "l">>,
     <<"C", "a", "l", "l", " ", "o", "f", " ", "D", "u", "t", "y">>,
     <<"S", "t", "a", "n", "d", "a", "r", "d", " ", "E", "d", "i", "t", "i", "o", "n">>,
     <<"A", "l", "l">>}

BundleParts ==
    {<<"B", "u", "n", "d", "l", "e">>,
     <<"C", "o", "m", "p", "l", "e", "t", "e", " ", "E", "d", "i", "t", "i", "o", "n">>,
     <<"D", "e", "f", "i", "n", "i", "t", "i", "v", "e", " ", "E", "d", "i", "t", "i", "o", "n">>,
     <<"G", "O", "T", "Y">>,
     <<"G", "a", "m", "e", " ", "o", "f", " ", "t", "h", "e", " ", "Y", "e", "a", "r">>,
     <<"U", "l", "t", "i", "m", "a", "t", "e", " ", "E", "d", "i", "t", "i", "o", "n">>,
     <<"D", "e", "l", "u", "x", "e", " ", "E", "d", "i", "t", "i", "o", "n">>,
     <<"G", "o", "l", "d", " ", "E", "d", "i", "t", "i", "o", "n">>}

DLCParts ==
    {<<"D", "L", "C">>,
     <<"E", "x", "p", "a", "n", "s", "i", "o", "n">>,
     <<"S", "e", "a", "s", "o", "n", " ", "P", "a", "s", "s">>,
     <<"A", "d", "d", "-", "O", "n">>,
     <<"D", "o", "w", "n", "l", "o", "a", "d", "a", "b", "l", "e", " ", "C", "o", "n", "t", "e", "n", "t">>,
     <<"P", "a", "c", "k">>,
     <<"C", "h", "a", "p", "t", "e", "r">>,
     <<"E", "p", "i", "s", "o", "d", "e">>,
     <<"-", " ", "I", "I">>}

TitleParts == PlainParts \cup BundleParts \cup DLCParts

RECURSIVE JoinParts(_)
JoinParts(parts) ==
    IF Len(parts) = 1 THEN parts[1]
    ELSE parts[1] \o <<" ">> \o JoinParts(Tail(parts))

Titles == {JoinParts(parts) : parts \in UNION {[1..n -> TitleParts] : n \in 1..MaxTitleParts}}

classOtherVars ==
    <<now, execVars, rateVars, cacheVars, homeVars, retryVars, pageVars, poolVars, lateVars>>

\* the home screen classifies the title of an aggregator row
ClassifyHome ==
    /\ clTitle # <<>>
    /\ clHome = NotClassified
    /\ clHome' = HomeClassify(clTitle)
    /\ UNCHANGED <<clTitle, clSearch>>
    /\ UNCHANGED classOtherVars

\* the search screen classifies the same title
ClassifySearch ==
    /\ clTitle # <<>>
    /\ clSearch = NotClassified
    /\ clSearch' = classifyContent(clTitle)
    /\ UNCHANGED <<clTitle, clHome>>
    /\ UNCHANGED classOtherVars

InitClassify ==
    /\ clTitle \in Titles
    /\ clHome = NotClassified
    /\ clSearch = NotClassified
    /\ now = 0
    /\ ExecOff /\ RateOff /\ CacheOff /\ HomeOff /\ RetryOff /\ PageOff /\ PoolOff
    /\ LateOff

NextClassify == ClassifyHome \/ ClassifySearch

SpecClassify == InitClassify /\ [][NextClassify]_vars

\* the keyword sets as section 4.4 of the specification lists them
SpecifiedBundleKeywords ==
    {<<"b", "u", "n", "d", "l", "e">>,
     <<"c", "o", "m", "p", "l", "e", "t", "e", " ", "e", "d", "i", "t", "i", "o", "n">>,
     <<"d", "e", "f", "i", "n", "i", "t", "i", "v", "e", " ", "e", "d", "i", "t", "i", "o", "n">>,
     <<"g", "o", "t", "y">>,
     <<"g", "a", "m", "e", " ", "o", "f", " ", "t", "h", "e", " ", "y", "e", "a", "r">>,
     <<"u", "l", "t", "i", "m", "a", "t", "e", " ", "e", "d", "i", "t", "i", "o", "n">>,
     <<"d", "e", "l", "u", "x", "e", " ", "e", "d", "i", "t", "i", "o", "n">>,
     <<"g", "o", "l", "d", " ", "e", "d", "i", "t", "i", "o", "n">>}

SpecifiedDLCKeywords ==
    {<<"d", "l", "c">>,
     <<"e", "x", "p", "a", "n", "s", "i", "o", "n">>,
     <<"s", "e", "a", "s", "o", "n", " ", "p", "a", "s", "s">>,
     <<"a", "d", "d", "-", "o", "n">>,
     <<"d", "o", "w", "n", "l", "o", "a", "d", "a", "b", "l", "e", " ", "c", "o", "n", "t", "e", "n", "t">>,
     <<"p", "a", "c", "k">>,
     <<"c", "h", "a", "p", "t", "e", "r">>,
     <<"e", "p", "i", "s", "o", "d", "e">>,
     <<" ", "-", " ">>}

HasBundleKeyword == IncludesAny(ToLowerCase(clTitle), SpecifiedBundleKeywords)
HasDLCKeyword    == IncludesAny(ToLowerCase(clTitle), SpecifiedDLCKeywords)

\* C17: a title with no Bundle keyword and no DLC keyword of the specified
\* sets is classified Game, isDLC and isBundle false, by the home screen's
\* classifier and by the search screen's.
C17_NoKeywordIsGame ==
    (~HasBundleKeyword /\ ~HasDLCKeyword) =>
      /\ clHome # NotClassified =>
           clHome = [contentType |-> "Game", isDLC |-> FALSE, isBundle |-> FALSE]
      /\ clSearch # NotClassified =>
           clSearch = [contentType |-> "Game", isDLC |-> FALSE, isBundle |-> FALSE]

\* C18: a title with a Bundle keyword is classified Bundle, isBundle true and
\* isDLC false, by both classifiers, also when it holds a DLC keyword.
C18_BundleKeywordWins ==
    HasBundleKeyword =>
      /\ clHome # NotClassified =>
           clHome = [contentType |-> "Bundle", isDLC |-> FALSE, isBundle |-> TRUE]
      /\ clSearch # NotClassified =>
           clSearch = [contentType |-> "Bundle", isDLC |-> FALSE, isBundle |-> TRUE]

\* a title with a Bundle keyword and a DLC keyword, classified Bundle by both
C18_Witness_BundleWithDLCKeyword ==
    /\ HasBundleKeyword /\ HasDLCKeyword
    /\ clHome.contentType = "Bundle" /\ clHome.isBundle /\ ~clHome.isDLC
    /\ clSearch.contentType = "Bundle" /\ clSearch.isBundle /\ ~clSearch.isDLC

\* C19: a title with no Bundle keyword and at least one DLC keyword of the
\* specified set is classified DLC by the home screen's classifier and by the
\* search screen's, and the two classifiers agree on every title.
C19_DLCKeywordIsDLCInBoth ==
    /\ (~HasBundleKeyword /\ HasDLCKeyword) =>
         /\ clHome # NotClassified => clHome.contentType = "DLC"
         /\ clSearch # NotClassified => clSearch.contentType = "DLC"
    /\ (clHome # NotClassified /\ clSearch # NotClassified) => clHome = clSearch

-----------------------------------------------------------------------------
\* C15: a load-more call takes its slice from the cached pool and never
\* asks the aggregator: no loadMoreGames call is waiting for
\* fetchAllSteamSaleGames.
C15_LoadMoreNeverFetchesAggregator ==
    \A k \in DOMAIN lm : lm[k].phase # "pool"


-----------------------------------------------------------------------------
(***************************************************************************)
(* The price filter alone: a list of listings on screen, and presses on    *)
(* the price buttons (filterOptions, lines 994-999).  The listings carry   *)
(* the regional final prices next to the bucket boundaries, or no regional *)
(* price block.                                                            *)
(***************************************************************************)
MaxListed == 2

\* the keys of filterOptions
PriceFilters == {"all", "under100k", "100k-500k", "500k-1m"}
PriceBuckets == PriceFilters \ {"all"}

ListedPriceBlocks ==
    {NoPrice} \cup {PriceBlock(final, 10) :
                      final \in {9999999, 10000000, 49999999, 50000000, 99999999, 100000000}}

\* filterDealsByPrice, lines 851-855, from the press of line 1226
PressPriceFilter ==
    /\ ~loading
    /\ \E filter \in PriceFilters :
         /\ selectedFilter' = filter
         /\ filteredDeals' = ApplyFilter(deals, filter, selectedGenre)
    /\ UNCHANGED <<deals, page, hasMore, loadingMore, loading, refreshing, allSteamGames,
                   selectedGenre, isFetchingGenres, fgInFlight, lm, bf, nEvents, earlyReturn>>
    /\ UNCHANGED <<now, execVars, rateVars, cacheVars, pureVars>>

InitFilter ==
    /\ \E n \in 1..MaxListed : \E blocks \in [1..n -> ListedPriceBlocks] :
         deals = [k \in 1..n |-> EnrichedGame(Candidate(k, 10), blocks[k])]
    /\ filteredDeals = deals
    /\ page = 1 /\ hasMore = TRUE /\ loadingMore = FALSE /\ loading = FALSE
    /\ refreshing = FALSE /\ allSteamGames = <<>>
    /\ selectedFilter = "all" /\ selectedGenre = "all"
    /\ isFetchingGenres = FALSE
    /\ fgInFlight = [pool |-> 0, prices |-> 0] /\ lm = <<>> /\ bf = <<>>
    /\ nEvents = 0 /\ earlyReturn = "none"
    /\ now = 0 /\ ExecOff /\ RateOff /\ CacheOff /\ PureOff

NextFilter == PressPriceFilter

SpecFilter == InitFilter /\ [][NextFilter]_vars

RegionalFinal(deal) == IF deal.steamPriceVN.has THEN deal.steamPriceVN.final ELSE 0
Shown(deal) == \E k \in DOMAIN filteredDeals : filteredDeals[k] = deal

\* C20: with p the regional final price of a listing (0 without a regional
\* price block), under100k shows exactly the listings with p < 10,000,000,
\* 100k-500k exactly those with 10,000,000 <= p < 50,000,000, 500k-1m
\* exactly those with 50,000,000 <= p < 100,000,000, and no listing is in
\* two buckets.
C20_BucketsHalfOpenAndDisjoint ==
    \A k \in DOMAIN deals :
      LET p == RegionalFinal(deals[k])
      IN  /\ selectedFilter = "under100k" => (Shown(deals[k]) <=> p < 10000000)
          /\ selectedFilter = "100k-500k" =>
               (Shown(deals[k]) <=> (10000000 <= p /\ p < 50000000))
          /\ selectedFilter = "500k-1m" =>
               (Shown(deals[k]) <=> (50000000 <= p /\ p < 100000000))
          /\ Cardinality({bucket \in PriceBuckets : PriceMatches(deals[k], bucket)}) <= 1

\* 100k-500k is selected: the listing at exactly 10,000,000 is shown, the
\* one at 9,999,999 is not, and under100k would not take the first
C20_Witness_TenMillionInSecondBucket ==
    /\ selectedFilter = "100k-500k"
    /\ Len(deals) = 2
    /\ RegionalFinal(deals[1]) = 10000000 /\ RegionalFinal(deals[2]) = 9999999
    /\ filteredDeals = <<deals[1]>>
    /\ ~PriceMatches(deals[1], "under100k")


-----------------------------------------------------------------------------
(***************************************************************************)
(* applyFilterToDeals, lines 768-841, as a function: a list of listings,   *)
(* a price filter and a genre filter are given; it is called on the list,  *)
(* and then on what that call published.                                   *)
(***************************************************************************)
MaxApplied == 2

StrIndie == <<"I", "n", "d", "i", "e">>
StrRolePlayingLabel == <<"R", "o", "l", "e", "-", "p", "l", "a", "y", "i", "n", "g">>

AppliedPriceBlocks == {NoPrice, PriceBlock(5000000, 10), PriceBlock(20000000, 10)}

AppliedGenres ==
    {NoGenres, Genres(<<>>), Genres(<<StrAction>>), Genres(<<StrIndie>>),
     Genres(<<StrIndie, StrRolePlayingLabel>>), Genres(<<StrNhapVai, StrAction>>)}

applyOtherVars ==
    <<now, execVars, rateVars, cacheVars, retryVars, pageVars, poolVars, classVars, detailVars, failVars, focusVars, loadVars, searchVars,
      deals, page, hasMore, loadingMore, loading, refreshing, allSteamGames,
      selectedFilter, selectedGenre, isFetchingGenres, fgInFlight, lm, bf, nEvents,
      earlyReturn>>

\* applyFilterToDeals(apItems, apPrice, apGenre)
ApplyOnce ==
    /\ apPc = "input"
    /\ apOnce' = ApplyFilter(apItems, apPrice, apGenre)
    /\ filteredDeals' = apOnce'
    /\ apPc' = "once"
    /\ UNCHANGED <<apItems, apPrice, apGenre, apTwice>>
    /\ UNCHANGED applyOtherVars

\* applyFilterToDeals(apOnce, apPrice, apGenre)
ApplyTwice ==
    /\ apPc = "once"
    /\ apTwice' = ApplyFilter(apOnce, apPrice, apGenre)
    /\ filteredDeals' = apTwice'
    /\ apPc' = "twice"
    /\ UNCHANGED <<apItems, apPrice, apGenre, apOnce>>
    /\ UNCHANGED applyOtherVars

InitApply ==
    /\ \E n \in 0..MaxApplied :
         \E blocks \in [1..n -> AppliedPriceBlocks] : \E labels \in [1..n -> AppliedGenres] :
           apItems = [k \in 1..n |->
                        [EnrichedGame(Candidate(k, 10), blocks[k]) EXCEPT !.genres = labels[k]]]
    /\ apPrice \in PriceFilters
    /\ apGenre \in {"all", "action", "rpg"}
    /\ apOnce = <<>> /\ apTwice = <<>> /\ apPc = "input"
    /\ now = 0
    /\ ExecOff /\ RateOff /\ CacheOff /\ HomeOff /\ RetryOff /\ PageOff /\ PoolOff /\ ClassOff
    /\ DetailOff /\ FailOff /\ FocusOff /\ LoadOff /\ SearchOff

NextApply == ApplyOnce \/ ApplyTwice

SpecApply == InitApply /\ [][NextApply]_vars

PriceHolds(deal, p) ==
    \/ p = "all"
    \/ p = "under100k" /\ RegionalFinal(deal) < 10000000
    \/ p = "100k-500k" /\ 10000000 <= RegionalFinal(deal) /\ RegionalFinal(deal) < 50000000
    \/ p = "500k-1m" /\ 50000000 <= RegionalFinal(deal) /\ RegionalFinal(deal) < 100000000

GenreHolds(deal, g) ==
    \/ g = "all"
    \/ \E i \in DOMAIN deal.genres.list : \E keyword \in GenreKeywords(g) :
         Includes(ToLowerCase(deal.genres.list[i]), ToLowerCase(keyword))

\* C21: what applyFilterToDeals publishes is the input listings, in input
\* order, that satisfy the price predicate and the genre predicate; a
\* genre other than "all" holds when some label of the listing contains,
\* whatever the case, a keyword of the genre, and never for a listing
\* without genre data.
C21_PublishedIsPriceAndGenre ==
    apPc \in {"once", "twice"} =>
      /\ apOnce = SelectSeq(apItems, LAMBDA deal : PriceHolds(deal, apPrice) /\ GenreHolds(deal, apGenre))
      /\ apGenre # "all" =>
           \A k \in DOMAIN apOnce : apOnce[k].genres.has /\ Len(apOnce[k].genres.list) > 0
      /\ apPc = "once" => filteredDeals = apOnce

\* "rpg" with "under100k": of two listings labelled Role-playing, the one
\* at 5,000,000 is published and the one at 20,000,000 is not
C21_Witness_CaseInsensitiveAndPrice ==
    /\ apPc = "once" /\ apGenre = "rpg" /\ apPrice = "under100k"
    /\ Len(apItems) = 2
    /\ apItems[1].genres = Genres(<<StrIndie, StrRolePlayingLabel>>)
    /\ apItems[2].genres = Genres(<<StrIndie, StrRolePlayingLabel>>)
    /\ RegionalFinal(apItems[1]) = 20000000 /\ RegionalFinal(apItems[2]) = 5000000
    /\ apOnce = <<apItems[2]>>

\* C22: applying the filter to its own output with the same price and genre
\* filter publishes the same list as applying it once.
C22_FilterIdempotent ==
    apPc = "twice" => (apTwice = apOnce /\ filteredDeals = apOnce)

\* a filter that drops a listing, applied twice
C22_Witness_ReappliedOnShorterList ==
    /\ apPc = "twice"
    /\ Len(apItems) = 2 /\ Len(apOnce) = 1
    /\ apGenre # "all" /\ apPrice # "all"
    /\ apTwice = apOnce


-----------------------------------------------------------------------------
(***************************************************************************)
(* The detail view of the search screen (part_001): handleGamePress,       *)
(* lines 284-303, runs fetchGameDetail (168-191) and fetchGameDLCs         *)
(* (194-281) in parallel.  The storefront's answer to a request is one of  *)
(* Responses; the answer for a DLC is fixed by its identifier.             *)
(***************************************************************************)
MaxDlcListed == 16     \* identifiers in the dlc list of the game
MaxPresses == 2
DlcLimit == 15         \* slice(0, 15), line 228

ParentAppID == 100
NoRecord == [steam_appid |-> 0, name |-> "", header_image |-> ""]

\* the answer of the storefront for one DLC
DlcResponse(dlcAppId) ==
    CASE dlcAppId % 8 = 4 -> "http500"
      [] dlcAppId % 8 = 5 -> "nonJson"
      [] dlcAppId % 8 = 6 -> "netError"
      [] dlcAppId % 8 = 7 -> "noData"
      [] OTHER -> "ok"

\* its data when the answer is a JSON body with data
DlcData(dlcAppId) ==
    [steam_appid |-> dlcAppId,
     name |-> IF dlcAppId % 8 = 2 THEN "" ELSE "name",
     header_image |-> IF dlcAppId % 8 = 3 THEN "" ELSE "image"]

\* lines 229-249: the mapper of one identifier; null for every failure
DlcDetail(dlcAppId) ==
    IF DlcResponse(dlcAppId) = "ok" THEN DlcData(dlcAppId) ELSE NoRecord

ValidDLCNameOnly(dlc) == dlc # NoRecord /\ dlc.name # ""
\* line 255: dlc && dlc.name && dlc.header_image
ValidDLC(dlc) == dlc # NoRecord /\ dlc.name # "" /\ dlc.header_image # ""

\* lines 256-272
FormatDLC(dlc) ==
    [dealID |-> dlc.steam_appid, title |-> dlc.name, thumb |-> dlc.header_image,
     steamAppID |-> dlc.steam_appid]

\* line 228: gameInfo.dlc.slice(0, 15)
DlcSlice(dlcCount) == [k \in 1..(IF dlcCount < DlcLimit THEN dlcCount ELSE DlcLimit) |-> k]

\* lines 227-274
ValidDLCs(dlcCount) ==
    LET dlcDetails == [k \in DOMAIN DlcSlice(dlcCount) |-> DlcDetail(DlcSlice(dlcCount)[k])]
        valid == SelectSeq(dlcDetails, ValidDLC)
    IN  [k \in DOMAIN valid |-> FormatDLC(valid[k])]

\* fetchGameDetail, lines 168-191: the data, or null
DetailResult(response) == IF response = "ok" THEN "detail" ELSE "null"

detailOtherVars ==
    <<now, execVars, rateVars, cacheVars, homeVars, retryVars, pageVars, poolVars, classVars,
      applyVars, failVars, focusVars, loadVars, searchVars>>

\* handleGamePress up to its await, lines 285-296; lines 285-302 for a game
\* without steamAppID
HandleGamePress ==
    /\ dtPc \in {"idle", "done"}
    /\ dtPresses < MaxPresses
    /\ dtPresses' = dtPresses + 1
    /\ gameDetail' = "null"
    /\ gameDLCs' = <<>>
    /\ IF dtAppID = 0
       THEN /\ dtLoadingDetail' = FALSE
            /\ dtPc' = "done"
            /\ UNCHANGED <<dtDetailPc, dtDlcPc, dtRequests>>
       ELSE /\ dtLoadingDetail' = TRUE
            /\ dtPc' = "inFlight"
            /\ dtDetailPc' = "inFlight"
            /\ dtDlcPc' = "parent"
            /\ dtRequests' = dtRequests \o <<dtAppID, dtAppID>>
    /\ UNCHANGED <<dtAppID, dtStore, dtDetail, dtDlcs>>
    /\ UNCHANGED detailOtherVars

\* fetchGameDetail after its fetch, lines 172-190
DetailSettles ==
    /\ dtDetailPc = "inFlight"
    /\ dtDetail' = DetailResult(dtStore.detail)
    /\ dtDetailPc' = "settled"
    /\ UNCHANGED <<dtAppID, dtStore, dtPc, dtDlcPc, dtDlcs, gameDetail, gameDLCs,
                   dtLoadingDetail, dtRequests, dtPresses>>
    /\ UNCHANGED detailOtherVars

\* fetchGameDLCs after its first fetch, lines 203-252, or the catch of 277-280
DlcParentSettles ==
    /\ dtDlcPc = "parent"
    /\ IF dtStore.parent = "ok" /\ dtStore.dlcCount > 0
       THEN /\ dtRequests' = dtRequests \o DlcSlice(dtStore.dlcCount)
            /\ dtDlcPc' = "children"
            /\ UNCHANGED dtDlcs
       ELSE /\ dtDlcs' = <<>>
            /\ dtDlcPc' = "settled"
            /\ UNCHANGED dtRequests
    /\ UNCHANGED <<dtAppID, dtStore, dtPc, dtDetailPc, dtDetail, gameDetail, gameDLCs,
                   dtLoadingDetail, dtPresses>>
    /\ UNCHANGED detailOtherVars

\* the Promise.all of line 227 has settled: lines 254-275
DlcChildrenSettle ==
    /\ dtDlcPc = "children"
    /\ dtDlcs' = ValidDLCs(dtStore.dlcCount)
    /\ dtDlcPc' = "settled"
    /\ UNCHANGED <<dtAppID, dtStore, dtPc, dtDetailPc, dtDetail, gameDetail, gameDLCs,
                   dtLoadingDetail, dtRequests, dtPresses>>
    /\ UNCHANGED detailOtherVars

\* handleGamePress after its await, lines 298-302
HandleGameResume ==
    /\ dtPc = "inFlight"
    /\ dtDetailPc = "settled" /\ dtDlcPc = "settled"
    /\ gameDetail' = dtDetail
    /\ gameDLCs' = dtDlcs
    /\ dtLoadingDetail' = FALSE
    /\ dtPc' = "done"
    /\ dtDetailPc' = "idle" /\ dtDlcPc' = "idle"
    /\ UNCHANGED <<dtAppID, dtStore, dtDetail, dtDlcs, dtRequests, dtPresses>>
    /\ UNCHANGED detailOtherVars

InitDetail ==
    /\ dtAppID \in {0, ParentAppID}
    /\ dtStore \in [detail : Responses, parent : Responses, dlcCount : 0..MaxDlcListed]
    /\ dtPc = "idle" /\ dtDetailPc = "idle" /\ dtDlcPc = "idle"
    /\ dtDetail = "null" /\ dtDlcs = <<>> /\ gameDetail = "null" /\ gameDLCs = <<>>
    /\ dtLoadingDetail = FALSE /\ dtRequests = <<>> /\ dtPresses = 0
    /\ now = 0
    /\ ExecOff /\ RateOff /\ CacheOff /\ HomeOff /\ RetryOff /\ PageOff /\ PoolOff /\ ClassOff
    /\ ApplyOff /\ FailOff /\ FocusOff /\ LoadOff /\ SearchOff

NextDetail ==
    \/ HandleGamePress
    \/ DetailSettles
    \/ DlcParentSettles
    \/ DlcChildrenSettle
    \/ HandleGameResume

SpecDetail == InitDetail /\ [][NextDetail]_vars

FairSpecDetail ==
    SpecDetail /\ WF_vars(DetailSettles \/ DlcParentSettles \/ DlcChildrenSettle \/ HandleGameResume)

RequestsFor(id) == Cardinality({k \in DOMAIN dtRequests : dtRequests[k] = id})

\* C23: the detail view requests an identifier from the storefront at most
\* once within the cache TTL (no time passes here), for the game pressed
\* and for each of its DLC identifiers, as requests through the response
\* cache would.
C23_AtMostOneRequestPerIdentifier ==
    \A k \in DOMAIN dtRequests : RequestsFor(dtRequests[k]) <= 1

\* C24: fetchGameDLCs returns at most 15 records, each with a name and an
\* image; whatever the storefront answers to its requests, the resolution
\* ends, with the detail record that fetchGameDetail got and loadingDetail
\* false.
C24_PartialDlcsNeverFailResolution ==
    /\ [](dtDlcPc = "settled" =>
            /\ Len(dtDlcs) <= 15
            /\ \A k \in DOMAIN dtDlcs : dtDlcs[k].title # "" /\ dtDlcs[k].thumb # ""
            /\ (dtStore.parent # "ok") => dtDlcs = <<>>)
    /\ []((dtPc = "done" /\ dtAppID # 0) =>
            /\ gameDLCs = dtDlcs
            /\ gameDetail = (IF dtStore.detail = "ok" THEN "detail" ELSE "null")
            /\ ~dtLoadingDetail)
    /\ [](dtPc = "inFlight" => <>(dtPc = "done"))

\* the request for the DLC list failed, the detail request did not: the
\* detail is shown with an empty DLC list
C24_Witness_DetailShownWithoutDlcs ==
    /\ dtPc = "done" /\ dtAppID # 0
    /\ dtStore.parent = "netError" /\ dtStore.detail = "ok"
    /\ gameDetail = "detail" /\ gameDLCs = <<>> /\ ~dtLoadingDetail


-----------------------------------------------------------------------------
(***************************************************************************)
(* The fetch operations when a request fails.  One call is made; for the   *)
(* two operations on the aggregator one of the ten page requests fails     *)
(* and the other pages answer flRows; for the two on the storefront the    *)
(* request fails, at every attempt in the same way.  A response with an    *)
(* error status carries a body that is JSON (an object with a message) or  *)
(* is not.                                                                 *)
(***************************************************************************)
MaxFailRows == 2

FetchOperations ==
    {"fetchAllSteamSaleGames", "fetchSteamSaleGames", "fetchSteamPrice", "fetchGameDetail"}

Failures ==
    {[response |-> "netError", body |-> "none"],
     [response |-> "nonJson", body |-> "nonJson"],
     [response |-> "http500", body |-> "nonJson"],
     [response |-> "http500", body |-> "json"]}

FailRowShapes == [steamAppID : {1, 2}, gameID : {1}, savings : {4, 5}, title : {StrPortal}]

\* lines 293-294: fetch rejects without a response, r.json() rejects on a
\* body that is not JSON; the status is not looked at
PageBatchRejects(failure) == failure.response = "netError" \/ failure.body = "nonJson"

\* fetchAllSteamSaleGames, lines 283-385: the object of the error body is
\* one more element of the flattened list, without savings, and line 303
\* drops it
AllSteamSaleGames(failure, rows) ==
    IF PageBatchRejects(failure) THEN <<>> ELSE UniqueFrom(AllGames(rows), 1)

\* fetchSteamSaleGames(0, true), lines 387-492: the first ten of the pool,
\* each with the aggregator's figures when its price request fails
SteamSaleGames(failure, rows) ==
    LET saleGames == AllSteamSaleGames(failure, rows)
        pageGames == SubSeq(saleGames, 1, IF Len(saleGames) < 10 THEN Len(saleGames) ELSE 10)
    IN  SelectSeq(pageGames, LAMBDA game : MinSavings(game.savings))

\* fetchSteamPrice, lines 515-559, when every attempt gets the same response
RECURSIVE SteamPriceOutcome(_, _)
SteamPriceOutcome(response, retries) ==
    IF ProducerThrows("fetchSteamPrice", response)
    THEN IF CanRetry(retries) THEN SteamPriceOutcome(response, retries - 1)
         ELSE GaveUp("fetchSteamPrice")
    ELSE ResultOf("fetchSteamPrice", response)

failOtherVars ==
    <<now, execVars, rateVars, cacheVars, retryVars, pageVars, poolVars, classVars,
      applyVars, detailVars, focusVars, loadVars, searchVars,
      deals, filteredDeals, page, loadingMore, loading, refreshing,
      selectedFilter, selectedGenre, isFetchingGenres, fgInFlight, lm, bf, nEvents,
      earlyReturn>>

FailAllSteamSaleGames ==
    /\ flPc = "calling" /\ flFn = "fetchAllSteamSaleGames"
    /\ flBatches' = flBatches + 1
    /\ flResult' = AllSteamSaleGames(flFailure, flRows)
    /\ allSteamGames' = IF PageBatchRejects(flFailure) THEN allSteamGames ELSE flResult'
    /\ flPc' = "returned"
    /\ UNCHANGED <<flFn, flFailure, flRows, hasMore>>
    /\ UNCHANGED failOtherVars

FailSteamSaleGames ==
    /\ flPc = "calling" /\ flFn = "fetchSteamSaleGames"
    /\ flBatches' = flBatches + 1
    /\ flResult' = SteamSaleGames(flFailure, flRows)
    /\ allSteamGames' = IF PageBatchRejects(flFailure) THEN allSteamGames
                         ELSE AllSteamSaleGames(flFailure, flRows)
    /\ hasMore' = IF Len(AllSteamSaleGames(flFailure, flRows)) = 0 THEN FALSE ELSE hasMore
    /\ flPc' = "returned"
    /\ UNCHANGED <<flFn, flFailure, flRows>>
    /\ UNCHANGED failOtherVars

FailSteamPrice ==
    /\ flPc = "calling" /\ flFn = "fetchSteamPrice"
    /\ flResult' = SteamPriceOutcome(flFailure.response, DefaultRetries)
    /\ flPc' = "returned"
    /\ UNCHANGED <<flFn, flFailure, flRows, flBatches, allSteamGames, hasMore>>
    /\ UNCHANGED failOtherVars

\* fetchGameDetail of the search screen
FailGameDetail ==
    /\ flPc = "calling" /\ flFn = "fetchGameDetail"
    /\ flResult' = DetailResult(flFailure.response)
    /\ flPc' = "returned"
    /\ UNCHANGED <<flFn, flFailure, flRows, flBatches, allSteamGames, hasMore>>
    /\ UNCHANGED failOtherVars

InitFail ==
    /\ flFn \in FetchOperations
    /\ flFailure \in Failures
    /\ \E n \in 0..MaxFailRows : \E shapes \in [1..n -> FailRowShapes] :
         flRows = [k \in 1..n |-> [dealID |-> k] @@ shapes[k]]
    /\ flPc = "calling" /\ flResult = "none" /\ flBatches = 0
    /\ now = 0
    /\ ExecOff /\ RateOff /\ CacheOff /\ HomeOff /\ RetryOff /\ PageOff /\ PoolOff /\ ClassOff
    /\ ApplyOff /\ DetailOff /\ FocusOff /\ LoadOff /\ SearchOff

NextFail == FailAllSteamSaleGames \/ FailSteamSaleGames \/ FailSteamPrice \/ FailGameDetail

SpecFail == InitFail /\ [][NextFail]_vars

\* C25: when its request fails (no response, an error status, a body that
\* is not JSON) a fetch operation throws nothing to its caller:
\* fetchAllSteamSaleGames and fetchSteamSaleGames return an empty list,
\* having sent one batch of page requests, and fetchSteamPrice and the
\* search screen's fetchGameDetail return null.
C25_FailureGivesSentinel ==
    /\ flPc # "threw"
    /\ flPc = "returned" =>
         /\ flFn \in {"fetchAllSteamSaleGames", "fetchSteamSaleGames"} =>
              (flResult = <<>> /\ flBatches = 1)
         /\ flFn \in {"fetchSteamPrice", "fetchGameDetail"} => flResult = "null"


-----------------------------------------------------------------------------
(***************************************************************************)
(* The focus effect of the Home tab, lines 653-688, driven by the tab bar  *)
(* (part_003, lines 113-123).  useFocusEffect runs the effect when the     *)
(* screen gains the focus and its cleanup when the screen loses it.  A     *)
(* press on the tab that is focused emits tabPress and navigates nowhere.  *)
(* The effect reads lastFocusTime.current in the difference                *)
(* Date.now() - lastFocusTime.current only, which is kept instead, in      *)
(* ticks of FocusTick milliseconds; beyond MaxFocusTicks it is not         *)
(* counted further.                                                        *)
(***************************************************************************)
MaxFocusTicks == 41
FocusTick == 50

\* lines 655-681: the effect; the refresh is lines 666-677
FocusEffect ==
    LET timeSinceLastFocus == sinceLastFocus * FocusTick
    IN  /\ IF isFocused /\ timeSinceLastFocus > 100 /\ timeSinceLastFocus < 2000
           THEN /\ refreshing' = TRUE
                /\ page' = 0
                /\ hasMore' = TRUE
                /\ allSteamGames' = <<>>
                /\ fgInFlight' = [fgInFlight EXCEPT !.pool = 1]
                /\ fcRefreshed' = TRUE
           ELSE UNCHANGED <<refreshing, page, hasMore, allSteamGames, fgInFlight, fcRefreshed>>
        /\ isFocused' = TRUE
        /\ sinceLastFocus' = 0

\* lines 683-686: the cleanup
FocusCleanup == isFocused' = FALSE

focusOtherVars ==
    <<now, execVars, rateVars, cacheVars, retryVars, pageVars, poolVars, classVars,
      applyVars, detailVars, failVars, loadVars, searchVars,
      deals, filteredDeals, loadingMore, loading, selectedFilter, selectedGenre,
      isFetchingGenres, lm, bf, nEvents, earlyReturn>>

Tabs == {"index", "search", "profile"}

\* a press on a tab: part_003, lines 113-123; leaving the Home tab runs the
\* cleanup, entering it runs the effect
PressTabNamed(tabName) ==
    /\ fcLastPress' = tabName
    /\ IF tabIndex # tabName
       THEN /\ tabIndex' = tabName
            /\ IF tabName = "index"
               THEN FocusEffect
               ELSE /\ IF tabIndex = "index" THEN FocusCleanup ELSE UNCHANGED isFocused
                    /\ UNCHANGED <<sinceLastFocus, fcRefreshed, refreshing, page, hasMore,
                                   allSteamGames, fgInFlight>>
       ELSE UNCHANGED <<tabIndex, isFocused, sinceLastFocus, fcRefreshed, refreshing, page,
                        hasMore, allSteamGames, fgInFlight>>
    /\ UNCHANGED focusOtherVars

PressTab == \E tabName \in Tabs : PressTabNamed(tabName)

FocusClock ==
    /\ sinceLastFocus < MaxFocusTicks
    /\ sinceLastFocus' = sinceLastFocus + 1
    /\ UNCHANGED <<tabIndex, isFocused, fcLastPress, fcRefreshed, refreshing, page, hasMore,
                   allSteamGames, fgInFlight>>
    /\ UNCHANGED focusOtherVars

\* the screen is mounted and focused, and its effect has run once
InitFocus ==
    /\ tabIndex = "index" /\ isFocused = TRUE /\ sinceLastFocus = 0
    /\ fcLastPress = "none" /\ fcRefreshed = FALSE
    /\ now = 0
    /\ ExecOff /\ RateOff /\ CacheOff /\ HomeOff /\ RetryOff /\ PageOff /\ PoolOff /\ ClassOff
    /\ ApplyOff /\ DetailOff /\ FailOff /\ LoadOff /\ SearchOff

NextFocus == PressTab \/ FocusClock

SpecFocus == InitFocus /\ [][NextFocus]_vars

InWindow == sinceLastFocus * FocusTick > 100 /\ sinceLastFocus * FocusTick < 2000

\* time passes beyond 100 ms again and again, and the user again and again
\* leaves the Home tab and comes back to it between 100 ms and 2000 ms after
\* the last focus event: whatever quick presses on the tab bar can bring
\* about is brought about
FairSpecFocus ==
    /\ SpecFocus
    /\ WF_vars(FocusClock)
    /\ \A t \in 0..(100 \div FocusTick) : SF_vars(FocusClock /\ sinceLastFocus = t)
    /\ SF_vars(PressTabNamed("search") /\ tabIndex = "index")
    /\ SF_vars(PressTabNamed("index") /\ tabIndex # "index")
    /\ SF_vars(PressTabNamed("search") /\ InWindow /\ tabIndex = "index")
    /\ SF_vars(PressTabNamed("index") /\ InWindow /\ tabIndex # "index")

\* C26: a focus event that arrives while the tab is marked focused, more
\* than 100 ms and less than 2000 ms after the previous one, starts a
\* refresh, and presses on the tab bar can bring one about: with the user
\* pressing tabs for ever, at every pace, a refresh is started.
C26_DoubleTapRefreshHappens == <>fcRefreshed

\* what holds instead: the effect never runs while the tab is marked focused
FocusEffectFindsFlagCleared ==
    /\ ~fcRefreshed
    /\ tabIndex # "index" => ~isFocused


-----------------------------------------------------------------------------
\* no fetchGameDeals, loadMoreGames or genre backfill has a step left to run
Quiescent ==
    /\ fgInFlight.pool = 0 /\ fgInFlight.prices = 0
    /\ lm = <<>> /\ bf = <<>>
    /\ ~loading /\ ~refreshing /\ ~loadingMore /\ ~isFetchingGenres

\* C27: whenever no fetch, load-more, refresh or backfill is in flight, the
\* listings displayed are the filter applied to the working set with the
\* price and genre filters that are selected.
C27_DisplayedIsFilterOfWorkingSet ==
    Quiescent => filteredDeals = ApplyFilter(deals, selectedFilter, selectedGenre)


-----------------------------------------------------------------------------
(***************************************************************************)
(* Pagination over a cached pool: the first page is on screen and the list *)
(* reaches its end again and again (loadMoreGames).  In the pool the       *)
(* candidates of the second slice are all sold in the region with a        *)
(* discount below 5, those after them are not.                             *)
(***************************************************************************)
MaxPool == 22

\* the identifiers of the pool, in its order: 13 to 20 are priced like 5 to 10
PoolOrder ==
    [k \in 1..22 |-> IF k <= 10 THEN k ELSE IF k <= 12 THEN k - 6 ELSE IF k <= 20 THEN k ELSE k - 10]

CachedPool(n) == [k \in 1..n |-> Candidate(PoolOrder[k], 10)]

InitPaging ==
    /\ \E n \in 10..MaxPool : allSteamGames = CachedPool(n)
    /\ deals = GamesOnSale(PageGames(allSteamGames, 0))
    /\ filteredDeals = deals
    /\ page = 1 /\ hasMore = TRUE /\ loadingMore = FALSE /\ loading = FALSE
    /\ refreshing = FALSE
    /\ selectedFilter \in PriceKeys /\ selectedGenre = "all"
    /\ isFetchingGenres = FALSE
    /\ fgInFlight = [pool |-> 0, prices |-> 0] /\ lm = <<>> /\ bf = <<>>
    /\ nEvents = 0 /\ earlyReturn = "none"
    /\ now = 0 /\ ExecOff /\ RateOff /\ CacheOff /\ PureOff

NextPaging == LoadMoreGames \/ LoadMoreFinish

SpecPaging == InitPaging /\ [][NextPaging]_vars

\* C28: hasMore becomes false only when the slice [10*page, 10*page + 10)
\* of the cached pool is empty; a page whose candidates are all removed by
\* the minimum-discount filter does not end the pagination.
C28_HasMoreEndsOnlyWithPool ==
    [][(hasMore /\ ~hasMore') => PageGames(allSteamGames, page) = <<>>]_vars


-----------------------------------------------------------------------------
(***************************************************************************)
(* The detail view of the Home tab: handleGamePress opens it and calls     *)
(* fetchGameDetail, which calls itself again from its catch block while    *)
(* retries are left.  The finally block of every call runs when that call  *)
(* returns, and a call that retries returns as soon as the retry has run   *)
(* to its first await.                                                     *)
(***************************************************************************)
MaxDetailIDs == 3

DetailRetries == 2

\* what one attempt can end with: the detail, an answer without data, a
\* response that is not ok, a body that is not JSON, a rejected request
DetailOutcomes == {"ok", "noData", "http429", "http500", "notJSON", "rejected"}

loadOtherVars ==
    <<now, execVars, rateVars, cacheVars, homeVars, retryVars, pageVars, poolVars, classVars,
      applyVars, detailVars, failVars, focusVars, searchVars>>

\* handleGamePress for a listing with a steamAppID (for one without, it only
\* alerts), up to the await of the request made by fetchGameDetail
HomeGamePress ==
    /\ ldPc = "idle"
    /\ \E id \in 1..MaxDetailIDs : ldAppID' = id
    /\ showGameDetail' = TRUE
    /\ selectedGame' = "null"
    /\ loadingDetail' = TRUE
    /\ ldRetries' = DetailRetries
    /\ ldPc' = "request"
    /\ UNCHANGED <<ldLog, loadOtherVars>>

\* the catch block and, when it does not retry, the finally block
AttemptFails ==
    IF ldRetries > 0
    THEN ldPc' = "waiting" /\ UNCHANGED loadingDetail
    ELSE ldPc' = "done" /\ loadingDetail' = FALSE

\* the request of the current attempt settles
DetailResponds ==
    /\ ldPc = "request"
    /\ \E o \in DetailOutcomes :
         /\ ldLog' = Append(ldLog, o)
         /\ CASE o = "ok" ->
                  /\ selectedGame' = "detail" /\ showGameDetail' = TRUE
                  /\ loadingDetail' = FALSE /\ ldPc' = "done"
              [] o = "noData" ->
                  /\ loadingDetail' = FALSE /\ ldPc' = "done"
                  /\ UNCHANGED <<selectedGame, showGameDetail>>
              [] o = "http429" ->
                  /\ ldPc' = "throttled"
                  /\ UNCHANGED <<selectedGame, showGameDetail, loadingDetail>>
              [] OTHER ->
                  /\ AttemptFails
                  /\ UNCHANGED <<selectedGame, showGameDetail>>
    /\ UNCHANGED <<ldAppID, ldRetries, loadOtherVars>>

\* the two seconds after a 429 are over: the producer throws
DetailThrottleOver ==
    /\ ldPc = "throttled"
    /\ AttemptFails
    /\ UNCHANGED <<ldAppID, ldRetries, selectedGame, showGameDetail, ldLog, loadOtherVars>>

\* the second before a retry is over: fetchGameDetail(steamAppID, retries - 1)
\* runs to its await (setLoadingDetail(true), request sent), then the finally
\* block of the call that retried runs (setLoadingDetail(false))
DetailRetryWaitOver ==
    /\ ldPc = "waiting"
    /\ ldRetries' = ldRetries - 1
    /\ ldPc' = "request"
    /\ loadingDetail' = FALSE
    /\ UNCHANGED <<ldAppID, selectedGame, showGameDetail, ldLog, loadOtherVars>>

\* onRequestClose of the modal
CloseDetail ==
    /\ showGameDetail
    /\ showGameDetail' = FALSE
    /\ UNCHANGED <<ldAppID, ldPc, ldRetries, loadingDetail, selectedGame, ldLog, loadOtherVars>>

InitLoading ==
    /\ LoadOff
    /\ now = 0 /\ ExecOff /\ RateOff /\ CacheOff /\ HomeOff
    /\ RetryOff /\ PageOff /\ PoolOff /\ ClassOff
    /\ ApplyOff /\ DetailOff /\ FailOff /\ FocusOff /\ SearchOff

NextLoading ==
    \/ HomeGamePress
    \/ DetailResponds
    \/ DetailThrottleOver
    \/ DetailRetryWaitOver
    \/ CloseDetail

SpecLoading == InitLoading /\ [][NextLoading]_vars

\* C29: while the detail view has a detail request in flight, the retries
\* included, loadingDetail is true; it becomes false only once the last
\* attempt has settled.
C29_LoadingUntilLastAttemptSettles ==
    ldPc \in {"request", "throttled", "waiting"} => loadingDetail


-----------------------------------------------------------------------------
(***************************************************************************)
(* The search screen: the text field, the debounce timer, the recent       *)
(* searches and the calls of searchGames, each of which publishes its      *)
(* answer when it arrives.  A text is a sequence of characters; a row of   *)
(* the results is named by its title.                                      *)
(***************************************************************************)
MaxSearches == 2

MinQueryLength == 2

RecentKept == 4

InitialRecentSearches ==
    << <<"C", "y", "b", "e", "r", "p", "u", "n", "k">>,
       <<"E", "l", "d", "e", "n", " ", "R", "i", "n", "g">>,
       <<"C", "a", "l", "l", " ", "o", "f", " ", "D", "u", "t", "y">>,
       <<"F", "I", "F", "A">> >>

\* what the user types into the field
TypedQueries ==
    { <<>>, <<" ">>, <<"F">>, <<"F", "I">>, <<" ", "F", "I", " ">>, <<"E", "l">> }

\* the titles the aggregator knows, in the order it returns them
Catalogue ==
    << <<"F", "I", "F", "A", " ", "2", "3">>, <<"E", "l", "d", "e", "n", " ", "R", "i", "n", "g">>, <<"F", "I", "F", "A", " ", "2", "2">> >>

RECURSIVE TrimStart(_)
TrimStart(q) == IF q # <<>> /\ Head(q) = " " THEN TrimStart(Tail(q)) ELSE q

RECURSIVE TrimEnd(_)
TrimEnd(q) ==
    IF q # <<>> /\ q[Len(q)] = " " THEN TrimEnd(SubSeq(q, 1, Len(q) - 1)) ELSE q

Trim(q) == TrimEnd(TrimStart(q))

TitleIncludes(title, q) ==
    \E k \in 0..(Len(title) - Len(q)) : SubSeq(title, k + 1, k + Len(q)) = q

\* the rows the aggregator answers for a title query
IsAnswerRow(title, q) == TitleIncludes(title, q)

SearchAnswer(q) ==
    LET RECURSIVE Rows(_)
        Rows(k) ==
            IF k > Len(Catalogue) THEN <<>>
            ELSE (IF IsAnswerRow(Catalogue[k], q) THEN <<Catalogue[k]>> ELSE <<>>) \o Rows(k + 1)
    IN  Rows(1)

InList(list, q) == \E k \in 1..Len(list) : list[k] = q

MinOf(a, b) == IF a < b THEN a ELSE b

searchOtherVars ==
    <<now, execVars, rateVars, cacheVars, homeVars, retryVars, pageVars, poolVars, classVars,
      applyVars, detailVars, failVars, focusVars, loadVars>>

\* searchGames(query) up to its first await, called from a render whose
\* recentSearches is recent
SearchGames(query, recent) ==
    IF Trim(query) = <<>>
    THEN /\ searchResults' = <<>>
         /\ srCalls' = [k \in 1..Len(srCalls) |->
                            IF k = Len(srCalls) THEN [srCalls[k] EXCEPT !.cleared = TRUE]
                            ELSE srCalls[k]]
         /\ UNCHANGED srLoading
    ELSE /\ srLoading' = TRUE
         /\ srCalls' = Append(srCalls, [query |-> query, recent |-> recent,
                                         status |-> "pending", cleared |-> FALSE])
         /\ UNCHANGED searchResults

\* onChangeText, and the effect that restarts the debounce timer
ChangeText ==
    /\ \E q \in TypedQueries :
         /\ q # searchQuery
         /\ searchQuery' = q
         /\ debounceRef' = <<q>>
    /\ UNCHANGED <<searchResults, srLoading, recentSearches, srCalls, searchOtherVars>>

\* the timer fires after 800 ms; its searchGames is that of the first render
DebounceFires ==
    /\ debounceRef # <<>>
    /\ debounceRef' = <<>>
    /\ LET query == Trim(debounceRef[1])
       IN  IF Len(query) >= MinQueryLength
           THEN /\ Len(srCalls) < MaxSearches
                /\ SearchGames(query, InitialRecentSearches)
           ELSE IF Len(query) = 0
           THEN /\ searchResults' = <<>>
                /\ srCalls' = [k \in 1..Len(srCalls) |->
                                   IF k = Len(srCalls) THEN [srCalls[k] EXCEPT !.cleared = TRUE]
                                   ELSE srCalls[k]]
                /\ UNCHANGED srLoading
           ELSE UNCHANGED <<searchResults, srLoading, srCalls>>
    /\ UNCHANGED <<searchQuery, recentSearches, searchOtherVars>>

\* the search button and onSubmitEditing
HandleSearch ==
    /\ Trim(searchQuery) # <<>>
    /\ Len(srCalls) < MaxSearches
    /\ SearchGames(Trim(searchQuery), recentSearches)
    /\ UNCHANGED <<searchQuery, debounceRef, recentSearches, searchOtherVars>>

\* a press on one of the recent searches
HandleRecentSearch ==
    /\ Len(srCalls) < MaxSearches
    /\ \E k \in 1..Len(recentSearches) :
         LET query == recentSearches[k]
         IN  /\ searchQuery' = query
             /\ debounceRef' = IF query # searchQuery THEN <<query>> ELSE debounceRef
             /\ SearchGames(query, recentSearches)
    /\ UNCHANGED <<recentSearches, searchOtherVars>>

\* the answer of a call arrives (with all its price lookups), or its
\* request fails
SearchSettles ==
    /\ \E k \in 1..Len(srCalls), ok \in BOOLEAN :
         LET call == srCalls[k]
         IN  /\ call.status = "pending"
             /\ srCalls' = [srCalls EXCEPT ![k].status = IF ok THEN "ok" ELSE "failed"]
             /\ IF ok
                THEN /\ searchResults' = SearchAnswer(call.query)
                     /\ recentSearches' =
                            IF InList(call.recent, call.query) THEN recentSearches
                            ELSE <<call.query>> \o
                                 SubSeq(call.recent, 1, MinOf(RecentKept, Len(call.recent)))
                ELSE UNCHANGED <<searchResults, recentSearches>>
    /\ srLoading' = FALSE
    /\ UNCHANGED <<searchQuery, debounceRef, searchOtherVars>>

InitSearch ==
    /\ searchQuery = <<>> /\ debounceRef = <<searchQuery>> /\ searchResults = <<>>
    /\ srLoading = FALSE /\ recentSearches = InitialRecentSearches /\ srCalls = <<>>
    /\ now = 0 /\ ExecOff /\ RateOff /\ CacheOff /\ HomeOff
    /\ RetryOff /\ PageOff /\ PoolOff /\ ClassOff
    /\ ApplyOff /\ DetailOff /\ FailOff /\ FocusOff /\ LoadOff

NextSearch ==
    \/ ChangeText
    \/ DebounceFires
    \/ HandleSearch
    \/ HandleRecentSearch
    \/ SearchSettles

SpecSearch == InitSearch /\ [][NextSearch]_vars

AllSearchesSettled == \A k \in 1..Len(srCalls) : srCalls[k].status # "pending"

\* C30: once all outstanding searches have settled, searchResults holds the
\* results of the most recently issued query: an older call's response that
\* arrives after a newer call's response never overwrites the newer results.
C30_LatestQueryWins ==
    ( /\ srCalls # <<>>
      /\ AllSearchesSettled
      /\ srCalls[Len(srCalls)].status = "ok"
      /\ ~srCalls[Len(srCalls)].cleared )
    => searchResults = SearchAnswer(srCalls[Len(srCalls)].query)

=============================================================================
